---- MODULE Spec2Model ----
(***************************************************************************)
(* A model of srv-rs: the SRV client (cache slot, policy, execute and the  *)
(* first_success convenience), the time-bounded cache and the resolver's    *)
(* ordered lookup.  Instants and durations are natural numbers; indices    *)
(* into cache items are 0-based as in the source, so item idx of a cache    *)
(* is items[idx + 1].                                                       *)
(***************************************************************************)
EXTENDS Naturals, Integers, Sequences, FiniteSets, TLC

\* ------------------------------------------------------------------ bounds
\* The last instant the clock reaches.
MaxTime == 2
\* The most records one lookup answers.
MaxRecs == 2
\* The largest time-to-live of a record (the other one is 0).
MaxTtl == 1
\* The largest value a draw of the sort key takes (a u16 in the source).
MaxRand == 1
\* The longest result sequence first_success is applied to on its own, and
\* the longest item list an ordering is applied to on its own.
MaxLen == 3
\* The most hooks reported to a policy on its own.
MaxHooks == 3

\* ------------------------------------------------------------ small values
\* The callers of execute; one call is in progress at a time.
Procs == {1}

NoUri == [scheme |-> "", host |-> "", port |-> 0, path |-> ""]

\* Option<T>: None, or Some(v).
None == [some |-> FALSE, v |-> NoUri]
Some(x) == [some |-> TRUE, v |-> x]

Min(S) == CHOOSE x \in S : \A y \in S : x <= y

SeqsUpTo(S, n) == UNION {[1..k -> S] : k \in 0..n}

Injective(s) == \A i, j \in 1..Len(s) : s[i] = s[j] => i = j

\* -------------------------------------------------------------- the cache
\* Cache::new
Cache_new(items, valid_until) == [valid_until |-> valid_until, items |-> items]

\* valid() with the expiration instant itself counted as expired
valid_open(cache, t) == Len(cache.items) # 0 /\ t < cache.valid_until

\* Cache::valid, with Instant::now() = t
valid(cache, t) == Len(cache.items) # 0 /\ t <= cache.valid_until

\* Cache::default, constructed at instant t
Cache_default(t) == Cache_new(<<>>, t)

\* -------------------------------------------------------- first_success
\* A caller's Result<T, E>: Ok(val) or Err(val).
Ok(x) == [ok |-> TRUE, val |-> x]
Err(x) == [ok |-> FALSE, val |-> x]

\* What first_success (or execute, on a refresh error) hands to the caller.
Ret(kind, x) == [kind |-> kind, val |-> x]
RetPending == Ret("Pending", NoUri)
RetNoTargets == Ret("NoTargets", NoUri)

\* first_success's tail without the NoSRVTargets case
first_success_end_err(last_error) == Ret("Err", last_error.v)

\* The tail of first_success: the stream has ended.
first_success_end(last_error) ==
    IF last_error.some THEN Ret("Err", last_error.v) ELSE RetNoTargets

RECURSIVE first_success_loop(_, _)
first_success_loop(results, last_error) ==
    IF results = <<>>
    THEN first_success_end(last_error)
    ELSE IF Head(results).ok
         THEN Ret("Ok", Head(results).val)
         ELSE first_success_loop(Tail(results), Some(Head(results).val))

\* first_success keeping the first error it sees instead of the last
RECURSIVE first_error_loop(_, _)
first_error_loop(results, first_error) ==
    IF results = <<>>
    THEN first_success_end(first_error)
    ELSE IF Head(results).ok
         THEN Ret("Ok", Head(results).val)
         ELSE first_error_loop(Tail(results),
                               IF first_error.some THEN first_error
                               ELSE Some(Head(results).val))

first_success_first_error(results) == first_error_loop(results, None)

\* ExecuteResults::first_success over a finite stream of results
first_success(results) == first_success_loop(results, None)

\* ------------------------------------------------------------ SRV records
Scheme_HTTPS == "https"

\* A target that cannot be an authority (it contains a space).
BadTarget == "bad host"

\* The resolvers a client can be given, and the targets each one knows for
\* the service: the second resolver serves another zone.
Resolvers == {1, 2}
Zone(r) == IF r = 1 THEN {"a", "b", BadTarget} ELSE {"c"}

\* The service names a client can be given.  Zone(r) is what resolver r knows
\* for the first one; for the other, the first resolver knows the one target
\* d and the second the targets a and b.
EXAMPLE_SRV == "_http._tcp.srv-client-rust.deshaw.org"
OTHER_SRV == "_http._tcp.other"
SrvNames == {EXAMPLE_SRV, OTHER_SRV}
ZoneOf(r, name) ==
    IF name = EXAMPLE_SRV THEN Zone(r)
    ELSE IF r = 1 THEN {"d"} ELSE {"a", "b"}

Targets == UNION {ZoneOf(r, name) : r \in Resolvers, name \in SrvNames}

\* The zone's data: priority, weight and port of each target.
PriorityOf(t) == IF t = "a" THEN 2 ELSE 1
WeightOf(t) == IF t = BadTarget THEN 0 ELSE 1
PortOf(t) == IF t = "a" THEN 8080 ELSE 8081

Ttls == {0, MaxTtl}

\* The second resolver's records for the other name have one ttl each.
TtlsOf(r, name, target) ==
    IF r = 2 /\ name = OTHER_SRV
    THEN IF target = "a" THEN {MaxTtl} ELSE {0}
    ELSE Ttls

RecordPool ==
    {[target |-> t, port |-> PortOf(t), priority |-> PriorityOf(t),
      weight |-> WeightOf(t), ttl |-> l] : t \in Targets, l \in Ttls}

\* What an unordered lookup can answer: up to MaxRecs distinct records.
Answers == {a \in SeqsUpTo(RecordPool, MaxRecs) : Injective(a)}

\* SrvResolver::get_srv_records_unordered(name) of resolver r
get_srv_records_unordered(r, name) ==
    {a \in Answers : \A i \in 1..Len(a) : /\ a[i].target \in ZoneOf(r, name)
                                           /\ a[i].ttl \in TtlsOf(r, name, a[i].target)}

Draws(n) == [1..n -> 0..MaxRand]

\* http::Uri::builder(): an authority with an invalid character, or a path
\* that does not start with "/", is rejected.
ValidAuthority(target) == target # BadTarget
ValidPath(path) == path \in {"/", "/bar"}

\* SrvRecord::parse
parse(record, scheme, path_and_query) ==
    IF ValidPath(path_and_query) /\ ValidAuthority(record.target)
    THEN Ok([scheme |-> scheme, host |-> record.target, port |-> record.port,
             path |-> path_and_query])
    ELSE Err(NoUri)

\* The largest u16: priority, weight and the number drawn are u16.
U16_MAX == 65535

\* A u32 is written as its two 16-bit halves <<high, low>>.
U32Less(x, y) == x[1] < y[1] \/ (x[1] = y[1] /\ x[2] < y[2])

\* the multiplication done in 16 bits
mul_u16(a, b) ==
    LET al == a % 256
        ah == (a \div 256) % 256
        bl == b % 256
        bh == (b \div 256) % 256
        low == al * bl + ((ah * bl + al * bh) % 256) * 256
    IN [value |-> <<0, low % (U16_MAX + 1)>>,
        overflow |-> (ah * bh > 0 \/ ah * bl + al * bh > 255 \/ low > U16_MAX)]

\* `a as u32 * b as u32` for two u16: the product by 8-bit digits, its low 32
\* bits as `value` and whether bits were lost as `overflow` (the build then
\* panics, or goes on with `value`).
mul_u32(a, b) ==
    LET al == a % 256
        ah == a \div 256
        bl == b % 256
        bh == b \div 256
        mid == ah * bl + al * bh
        low == al * bl + (mid % 256) * 256
        high == ah * bh + mid \div 256 + low \div (U16_MAX + 1)
    IN [value |-> <<high % (U16_MAX + 1), low % (U16_MAX + 1)>>,
        overflow |-> high > U16_MAX]

\* sort_key leaving the weight out of the key
sort_key_no_weight(priority, weight, rand) == <<priority, <<0, rand>>>>

\* record::sort_key: (priority, Reverse(weight as u32 * rand as u32)); the
\* second component is compared in reverse by KeyLess.
sort_key(priority, weight, rand) == <<priority, mul_u32(weight, rand).value>>

\* an order on the keys that looks at the second component only
KeyLess_weight_only(k1, k2) == U32Less(k2[2], k1[2])

\* Ord on (u16, Reverse<u32>)
KeyLess(k1, k2) == k1[1] < k2[1] \/ (k1[1] = k2[1] /\ U32Less(k2[2], k1[2]))

RECURSIVE InsertByKey(_, _, _)
InsertByKey(sorted, i, keys) ==
    IF sorted = <<>>
    THEN <<i>>
    ELSE IF KeyLess(keys[i], keys[Head(sorted)])
         THEN <<i>> \o sorted
         ELSE <<Head(sorted)>> \o InsertByKey(Tail(sorted), i, keys)

RECURSIVE SortUpTo(_, _)
SortUpTo(keys, n) ==
    IF n = 0 THEN <<>> ELSE InsertByKey(SortUpTo(keys, n - 1), n, keys)

\* slice::sort_by_cached_key: the positions 1..n in stable key order
sort_by_cached_key(keys) == SortUpTo(keys, Len(keys))

\* order_srv_records losing the records of weight 0
order_srv_records_drop_weightless(records, rnd) ==
    LET keys == [i \in 1..Len(records) |->
                    sort_key(records[i].priority, records[i].weight, rnd[i])]
        perm == sort_by_cached_key(keys)
    IN SelectSeq([k \in 1..Len(records) |-> records[perm[k]]],
                 LAMBDA x : x.weight > 0)

\* order_srv_records leaving the records as the lookup answered them
order_srv_records_unsorted(records, rnd) == records

\* SrvResolver::order_srv_records, rnd[i] the draw made for record i
order_srv_records(records, rnd) ==
    LET keys == [i \in 1..Len(records) |->
                    sort_key(records[i].priority, records[i].weight, rnd[i])]
        perm == sort_by_cached_key(keys)
    IN [k \in 1..Len(records) |-> records[perm[k]]]

\* SrvResolver::get_srv_records on one result of get_srv_records_unordered:
\* an error is passed on by the ?, the records of an answer are ordered in
\* place and returned with the answer's valid_until.
get_srv_records_of(unordered, rnd) ==
    IF unordered.ok
    THEN Ok([records |-> order_srv_records(unordered.val.records, rnd),
             valid_until |-> unordered.val.valid_until])
    ELSE unordered

\* SrvResolver::get_srv_records: for each resolver and service name, every
\* record list an ordered lookup can return, over the answers of the unordered
\* lookup and the draws of the sort
get_srv_records ==
    [r \in Resolvers, name \in SrvNames |->
        {order_srv_records(a, rnd) : <<a, rnd>> \in
            UNION {{<<a, rnd>> : rnd \in Draws(Len(a))} :
                       a \in get_srv_records_unordered(r, name)}}]

\* ---------------------------------------------------------------- policies
Policies == {"Affinity", "Rfc2782"}

\* ParsedRecord::new
ParsedRecord_new(record, uri) ==
    [uri |-> uri, priority |-> record.priority, weight |-> record.weight]

\* Policy::cache_item_to_uri
cache_item_to_uri(pol, item) == IF pol = "Affinity" THEN item ELSE item.uri

\* the largest ttl instead of the smallest
max_ttl(records) ==
    IF records = <<>> THEN 0
    ELSE CHOOSE x \in {records[i].ttl : i \in 1..Len(records)} :
            \A i \in 1..Len(records) : records[i].ttl <= x

\* min over the records' ttl(), unwrap_or_default
min_ttl(records) ==
    IF records = <<>> THEN 0 ELSE Min({records[i].ttl : i \in 1..Len(records)})

ParseAll(records, scheme, path) ==
    [i \in 1..Len(records) |-> parse(records[i], scheme, path)]

AllOk(parsed) == \A i \in 1..Len(parsed) : parsed[i].ok

\* refresh_cache dropping the records that do not parse
policy_refresh_cache_skip_bad(pol, records, response_time, scheme, path) ==
    LET parsed == ParseAll(records, scheme, path)
        good == SelectSeq([i \in 1..Len(records) |-> i], LAMBDA i : parsed[i].ok)
        items == [k \in 1..Len(good) |->
                    IF pol = "Affinity" THEN parsed[good[k]].val
                    ELSE ParsedRecord_new(records[good[k]], parsed[good[k]].val)]
    IN Ok(Cache_new(items, response_time + min_ttl(records)))

\* Policy::refresh_cache once the lookup has answered `records` at instant
\* response_time: Ok(cache), or Err for a record that does not parse.  The
\* cache expires when the smallest ttl has run out since the answer
\* (response_time + min_ttl, as the libresolv backend computes valid_until).
policy_refresh_cache(pol, records, response_time, scheme, path) ==
    LET parsed == ParseAll(records, scheme, path)
        items == [i \in 1..Len(records) |->
                    IF pol = "Affinity" THEN parsed[i].val
                    ELSE ParsedRecord_new(records[i], parsed[i].val)]
    IN IF AllOk(parsed)
       THEN Ok(Cache_new(items, response_time + min_ttl(records)))
       ELSE Err(Cache_default(0))

\* Iterator::position
RECURSIVE position_from(_, _, _)
position_from(cached, x, i) ==
    IF i > Len(cached) THEN None
    ELSE IF cached[i] = x THEN Some(i - 1)
    ELSE position_from(cached, x, i + 1)

\* uris_preferring without the preference
preferred_index_zero(cached, preferred) == 0

\* Affinity::uris_preferring: the index produced first
preferred_index(cached, preferred) ==
    IF preferred.some /\ position_from(cached, preferred.v, 1).some
    THEN position_from(cached, preferred.v, 1).v
    ELSE 0

\* AffinityUriIter::next without the arm that skips the preferred index
RECURSIVE AffinityUriIter_no_skip(_, _, _, _)
AffinityUriIter_no_skip(n, preferred, nxt, acc) ==
    LET idx == IF nxt = -1 THEN preferred ELSE nxt
        nn == IF nxt = -1 THEN 0 ELSE nxt + 1
    IN IF idx < n THEN AffinityUriIter_no_skip(n, preferred, nn, Append(acc, idx))
       ELSE acc

\* AffinityUriIter::next, collected until uris.get(idx) is None.
\* nxt is self.next: -1 for None, n for Some(n).
RECURSIVE AffinityUriIter(_, _, _, _)
AffinityUriIter(n, preferred, nxt, acc) ==
    LET idx == IF nxt = -1 THEN preferred
               ELSE IF nxt = preferred THEN nxt + 1 ELSE nxt
        nn == IF nxt = -1 THEN 0
              ELSE IF nxt = preferred THEN nxt + 2 ELSE nxt + 1
    IN IF idx < n THEN AffinityUriIter(n, preferred, nn, Append(acc, idx)) ELSE acc

\* Affinity::uris
Affinity_uris(cached, lwt) ==
    AffinityUriIter(Len(cached), preferred_index(cached, lwt), -1, <<>>)

\* Rfc2782::uris, rnd[i] the draw made for item i - 1
Rfc2782_uris(cached, rnd) ==
    LET keys == [i \in 1..Len(cached) |->
                    sort_key(cached[i].priority, cached[i].weight, rnd[i])]
        perm == sort_by_cached_key(keys)
    IN [k \in 1..Len(cached) |-> perm[k] - 1]

\* Policy::order over the items of a snapshot: the index sequences it can
\* produce (one for Affinity, one per outcome of the draws for Rfc2782)
order(pol, items, lwt) ==
    IF pol = "Affinity"
    THEN {Affinity_uris(items, lwt)}
    ELSE {Rfc2782_uris(items, rnd) : rnd \in Draws(Len(items))}

\* note_success keeping the first address it was given
note_success_keep_first(pol, lwt, uri) ==
    IF pol = "Affinity" THEN (IF lwt.some THEN lwt ELSE Some(uri)) ELSE lwt

\* note_success forgetting an address that is reported again
note_success_toggle(pol, lwt, uri) ==
    IF pol = "Affinity" THEN (IF lwt = Some(uri) THEN None ELSE Some(uri)) ELSE lwt

\* note_success storing the address whatever the policy
note_success_any(pol, lwt, uri) == Some(uri)

\* Policy::note_success: Affinity stores the address, Rfc2782 keeps the default
note_success(pol, lwt, uri) == IF pol = "Affinity" THEN Some(uri) ELSE lwt

\* note_failure forgetting the remembered address when it fails
note_failure_forget(pol, lwt, uri) == IF lwt = Some(uri) THEN None ELSE lwt

\* Policy::note_failure: the default, empty hook for both policies
note_failure(pol, lwt, uri) == lwt

\* ---------------------------------------------------------------- state
VARIABLES
    now,                 \* Instant::now()
    cache,               \* SrvClient::cache, the ArcSwap slot
    resolver,            \* SrvClient::resolver: which resolver the client asks
    srv,                 \* SrvClient::srv: the service name it asks for
    policy,              \* which Policy the client was built with
    last_working_target, \* Affinity::last_working_target
    http_scheme,         \* SrvClient::http_scheme
    path_prefix,         \* SrvClient::path_prefix
    ex,                  \* the execute call of each caller
    fin,                 \* input of a function applied on its own
    fout                 \* its output

vars == <<now, cache, resolver, srv, policy, last_working_target, http_scheme,
          path_prefix, ex, fin, fout>>

clientVars == <<now, cache, resolver, srv, policy, last_working_target,
                http_scheme, path_prefix, ex>>

Modes == {"Serial", "Concurrent"}
Sinks == {"first_success", "stream"}

\* What the resolver answered to a call's lookup: nothing yet, an error, or n
\* records of which bad do not parse and whose smallest ttl is ttl.
NoAnswer == [status |-> "none", n |-> 0, bad |-> 0, ttl |-> 0]
AnswerOf(records) ==
    [status |-> "ok", n |-> Len(records), ttl |-> min_ttl(records),
     bad |-> Cardinality({i \in 1..Len(records) :
                             ~parse(records[i], http_scheme, path_prefix).ok})]

\* A caller that is not inside execute.
IdleEx ==
    [pc |-> "idle", mode |-> "Serial", sink |-> "first_success",
     loaded |-> Cache_default(0), loaded_at |-> 0, hit |-> FALSE,
     snap |-> Cache_default(0), acquired_at |-> 0,
     order |-> <<>>, next |-> 0, pending |-> {},
     invoked |-> <<>>, yielded |-> <<>>, noted |-> <<>>,
     last_error |-> None, ret |-> RetPending, lookups |-> 0, stores |-> 0,
     answer |-> NoAnswer]

\* SrvClient::new_with_resolver, at instant 0
ClientInit ==
    /\ now = 0
    /\ cache = Cache_default(0)
    /\ resolver = 1
    /\ srv = EXAMPLE_SRV
    /\ policy \in Policies
    /\ last_working_target = None
    /\ http_scheme = Scheme_HTTPS
    /\ path_prefix = "/"
    /\ ex = [p \in Procs |-> IdleEx]

Init == ClientInit /\ fin = <<>> /\ fout = <<>>

\* The candidate address of index idx of a snapshot (execute's inner closure).
candidate(snap, idx) == cache_item_to_uri(policy, snap.items[idx + 1])

\* execute building the Concurrent stream as lazily as the Serial one: no
\* operation is started when the stream is built
build_stream_lazy(e, snap, sink, ord) ==
    [e EXCEPT !.pc = "run", !.sink = sink, !.snap = snap,
              !.acquired_at = now, !.order = ord,
              !.next = 0, !.pending = {}, !.invoked = <<>>]

\* The rest of execute once the snapshot is in hand: the order is taken from
\* the policy and the stream is built; Concurrent calls func on every
\* candidate at once (FuturesUnordered::from_iter(order.map(func))), Serial
\* on none yet (stream::iter(order).then(func)).
build_stream(e, snap, sink, ord) ==
    LET conc == e.mode = "Concurrent"
    IN [e EXCEPT !.pc = "run", !.sink = sink, !.snap = snap,
                 !.acquired_at = now, !.order = ord,
                 !.next = IF conc THEN Len(ord) ELSE 0,
                 !.pending = IF conc THEN 1..Len(ord) ELSE {},
                 !.invoked = IF conc
                             THEN [k \in 1..Len(ord) |-> candidate(snap, ord[k])]
                             ELSE <<>>]

\* get_valid_cache using whatever the slot holds
get_valid_cache_any(loaded, t) == TRUE

\* get_valid_cache refreshing on every call
get_valid_cache_never(loaded, t) == FALSE

\* get_valid_cache looking at the items only, not at the expiration
get_valid_cache_nonempty(loaded, t) == Len(loaded.items) # 0

\* SrvClient::get_valid_cache on the slot's current value: TRUE to use it

get_valid_cache(loaded, t) == valid(loaded, t)

\* execute is called: the slot is read; a valid snapshot is used at once,
\* otherwise the policy's refresh_cache starts a lookup and execute awaits it.
execute(p, m) ==
    /\ ex[p].pc = "idle"
    /\ LET e == [ex[p] EXCEPT !.mode = m, !.loaded = cache, !.loaded_at = now]
       IN IF get_valid_cache(cache, now)
          THEN \E sink \in Sinks,
                  ord \in order(policy, cache.items, last_working_target) :
                 ex' = [ex EXCEPT ![p] =
                        build_stream([e EXCEPT !.hit = TRUE], cache, sink, ord)]
          ELSE ex' = [ex EXCEPT ![p] =
                        [e EXCEPT !.pc = "lookup", !.lookups = @ + 1]]
    /\ UNCHANGED <<now, cache, resolver, srv, policy, last_working_target, http_scheme,
                   path_prefix, fin, fout>>

\* a failed lookup that is tried again
lookup_failed_retry(p) ==
    /\ ex[p].pc = "lookup"
    /\ ex' = [ex EXCEPT ![p] = [@ EXCEPT !.lookups = @ + 1]]
    /\ UNCHANGED <<now, cache, resolver, srv, policy, last_working_target, http_scheme,
                   path_prefix, fin, fout>>

\* The resolver fails: SrvError::Lookup, nothing is stored.
lookup_failed(p) ==
    /\ ex[p].pc = "lookup"
    /\ ex' = [ex EXCEPT ![p] =
            [@ EXCEPT !.pc = "done", !.ret = Ret("Lookup", NoUri),
                      !.answer = [NoAnswer EXCEPT !.status = "error"]]]
    /\ UNCHANGED <<now, cache, resolver, srv, policy, last_working_target, http_scheme,
                   path_prefix, fin, fout>>

\* refresh_cache leaving in the slot a valid cache that expires later than
\* the new one
refresh_cache_keep_fresher(p, e, refreshed) ==
    IF refreshed.ok
    THEN /\ cache' = IF valid(cache, now)
                        /\ cache.valid_until > refreshed.val.valid_until
                     THEN cache ELSE refreshed.val
         /\ \E sink \in Sinks,
               ord \in order(policy, refreshed.val.items, last_working_target) :
              ex' = [ex EXCEPT ![p] =
                build_stream([e EXCEPT !.stores = @ + 1], refreshed.val, sink, ord)]
    ELSE /\ cache' = cache
         /\ ex' = [ex EXCEPT ![p] =
                [e EXCEPT !.pc = "done", !.ret = Ret("RecordParsing", NoUri)]]

\* refresh_cache storing the new items under the expiration of the cache that
\* the slot held
refresh_cache_keep_expiry(p, e, refreshed) ==
    IF refreshed.ok
    THEN LET mixed == Cache_new(refreshed.val.items, cache.valid_until)
         IN /\ cache' = mixed
            /\ \E sink \in Sinks,
                  ord \in order(policy, mixed.items, last_working_target) :
                 ex' = [ex EXCEPT ![p] =
                   build_stream([e EXCEPT !.stores = @ + 1], mixed, sink, ord)]
    ELSE /\ cache' = cache
         /\ ex' = [ex EXCEPT ![p] =
                [e EXCEPT !.pc = "done", !.ret = Ret("RecordParsing", NoUri)]]

\* SrvClient::refresh_cache once the policy's refresh_cache has returned
\* `refreshed`: an error is passed on, a cache is stored and used.
refresh_cache(p, e, refreshed) ==
    IF refreshed.ok
    THEN /\ cache' = refreshed.val
         /\ \E sink \in Sinks,
               ord \in order(policy, refreshed.val.items, last_working_target) :
              ex' = [ex EXCEPT ![p] =
                build_stream([e EXCEPT !.stores = @ + 1], refreshed.val, sink, ord)]
    ELSE /\ cache' = cache
         /\ ex' = [ex EXCEPT ![p] =
                [e EXCEPT !.pc = "done", !.ret = Ret("RecordParsing", NoUri)]]

\* The resolver answers (at some instant since the lookup began) with records
\* in the order of SrvResolver::get_srv_records; the refresh completes.
lookup_answered(p) ==
    /\ ex[p].pc = "lookup"
    /\ \E records \in get_srv_records[resolver, srv], response_time \in ex[p].loaded_at..now :
         refresh_cache(p, [ex[p] EXCEPT !.answer = AnswerOf(records)],
                       policy_refresh_cache(policy, records, response_time,
                                            http_scheme, path_prefix))
    /\ UNCHANGED <<now, resolver, srv, policy, last_working_target, http_scheme, path_prefix,
                   fin, fout>>

\* dispatch asking the policy again for an order before each attempt
dispatch_reordering(p) ==
    /\ ex[p].pc = "run"
    /\ ex[p].mode = "Serial"
    /\ ex[p].pending = {}
    /\ ex[p].next < Len(ex[p].order)
    /\ LET k == ex[p].next + 1
           fresh == CHOOSE o \in order(policy, ex[p].snap.items, last_working_target) :
                        TRUE
           uri == candidate(ex[p].snap, fresh[k])
       IN ex' = [ex EXCEPT ![p] = [@ EXCEPT !.order = fresh, !.next = k,
                                             !.pending = {k},
                                             !.invoked = Append(@, uri)]]
    /\ UNCHANGED <<now, cache, resolver, srv, policy, last_working_target, http_scheme,
                   path_prefix, fin, fout>>

\* dispatch not waiting for the operation in flight to complete
dispatch_eager(p) ==
    /\ ex[p].pc = "run"
    /\ ex[p].mode = "Serial"
    /\ ex[p].next < Len(ex[p].order)
    /\ LET k == ex[p].next + 1
           uri == candidate(ex[p].snap, ex[p].order[k])
       IN ex' = [ex EXCEPT ![p] = [@ EXCEPT !.next = k, !.pending = @ \cup {k},
                                             !.invoked = Append(@, uri)]]
    /\ UNCHANGED <<now, cache, resolver, srv, policy, last_working_target, http_scheme,
                   path_prefix, fin, fout>>

\* dispatch taking the candidate from what the slot holds now, where it has
\* an item at that index
dispatch_from_slot(p) ==
    /\ ex[p].pc = "run"
    /\ ex[p].mode = "Serial"
    /\ ex[p].pending = {}
    /\ ex[p].next < Len(ex[p].order)
    /\ LET k == ex[p].next + 1
           idx == ex[p].order[k]
           uri == IF idx < Len(cache.items) THEN candidate(cache, idx)
                  ELSE candidate(ex[p].snap, idx)
       IN ex' = [ex EXCEPT ![p] = [@ EXCEPT !.next = k, !.pending = {k},
                                             !.invoked = Append(@, uri)]]
    /\ UNCHANGED <<now, cache, resolver, srv, policy, last_working_target, http_scheme,
                   path_prefix, fin, fout>>

\* Serial: the stream is polled with no operation in flight; func is called
\* on the next index of the order.
dispatch(p) ==
    /\ ex[p].pc = "run"
    /\ ex[p].mode = "Serial"
    /\ ex[p].pending = {}
    /\ ex[p].next < Len(ex[p].order)
    /\ LET k == ex[p].next + 1
           uri == candidate(ex[p].snap, ex[p].order[k])
       IN ex' = [ex EXCEPT ![p] = [@ EXCEPT !.next = k, !.pending = {k},
                                             !.invoked = Append(@, uri)]]
    /\ UNCHANGED <<now, cache, resolver, srv, policy, last_working_target, http_scheme,
                   path_prefix, fin, fout>>

\* first_success going on after a success
first_success_step_no_stop(e, result) ==
    IF result.ok
    THEN [e EXCEPT !.ret = Ret("Ok", result.val)]
    ELSE [e EXCEPT !.last_error = Some(result.val)]

\* first_success keeping the first error
first_success_step_first_error(e, result) ==
    IF result.ok
    THEN [e EXCEPT !.pc = "done", !.ret = Ret("Ok", result.val), !.pending = {}]
    ELSE [e EXCEPT !.last_error = IF @.some THEN @ ELSE Some(result.val)]

\* first_success returning the first result whatever it is
first_success_step_first_result(e, result) ==
    IF result.ok
    THEN [e EXCEPT !.pc = "done", !.ret = Ret("Ok", result.val), !.pending = {}]
    ELSE [e EXCEPT !.pc = "done", !.ret = Ret("Err", result.val), !.pending = {}]

\* first_success returning at a success while the stream, with the operations
\* still in flight, is kept
first_success_step_detach(e, result) ==
    IF result.ok
    THEN [e EXCEPT !.pc = "done", !.ret = Ret("Ok", result.val)]
    ELSE [e EXCEPT !.last_error = Some(result.val)]

\* One step of first_success's loop on a yielded result.
first_success_step(e, result) ==
    IF result.ok
    THEN [e EXCEPT !.pc = "done", !.ret = Ret("Ok", result.val), !.pending = {}]
    ELSE [e EXCEPT !.last_error = Some(result.val)]

\* complete with a map closure that passes an error on without reporting it
complete_unreported_failure(p, k, ok) ==
    /\ ex[p].pc = "run"
    /\ k \in ex[p].pending
    /\ LET uri == candidate(ex[p].snap, ex[p].order[k])
           result == IF ok THEN Ok(uri) ELSE Err(uri)
           e == [ex[p] EXCEPT !.pending = @ \ {k},
                              !.yielded = Append(@, result),
                              !.noted = IF ok THEN Append(@, <<ok, uri>>) ELSE @]
       IN /\ last_working_target' =
                IF ok THEN note_success(policy, last_working_target, uri)
                ELSE last_working_target
          /\ ex' = [ex EXCEPT ![p] =
                IF e.sink = "first_success" THEN first_success_step(e, result) ELSE e]
    /\ UNCHANGED <<now, cache, resolver, srv, policy, http_scheme, path_prefix, fin, fout>>

\* complete with a stream that ends at the first error: what is in flight or
\* not yet started is dropped
complete_error_ends_stream(p, k, ok) ==
    /\ ex[p].pc = "run"
    /\ k \in ex[p].pending
    /\ LET uri == candidate(ex[p].snap, ex[p].order[k])
           result == IF ok THEN Ok(uri) ELSE Err(uri)
           e == [ex[p] EXCEPT !.pending = IF ok THEN @ \ {k} ELSE {},
                              !.next = IF ok THEN @ ELSE Len(ex[p].order),
                              !.yielded = Append(@, result),
                              !.noted = Append(@, <<ok, uri>>)]
       IN /\ last_working_target' =
                IF ok THEN note_success(policy, last_working_target, uri)
                ELSE note_failure(policy, last_working_target, uri)
          /\ ex' = [ex EXCEPT ![p] =
                IF e.sink = "first_success" THEN first_success_step(e, result) ELSE e]
    /\ UNCHANGED <<now, cache, resolver, srv, policy, http_scheme, path_prefix, fin, fout>>

\* The operation in flight on order[k] completes with Ok or Err; the stream's
\* map closure reports it to the policy and yields it to the consumer.
complete(p, k, ok) ==
    /\ ex[p].pc = "run"
    /\ k \in ex[p].pending
    /\ LET uri == candidate(ex[p].snap, ex[p].order[k])
           result == IF ok THEN Ok(uri) ELSE Err(uri)
           e == [ex[p] EXCEPT !.pending = @ \ {k},
                              !.yielded = Append(@, result),
                              !.noted = Append(@, <<ok, uri>>)]
       IN /\ last_working_target' =
                IF ok THEN note_success(policy, last_working_target, uri)
                ELSE note_failure(policy, last_working_target, uri)
          /\ ex' = [ex EXCEPT ![p] =
                IF e.sink = "first_success" THEN first_success_step(e, result) ELSE e]
    /\ UNCHANGED <<now, cache, resolver, srv, policy, http_scheme, path_prefix, fin, fout>>

\* The stream ends: every index of the order was yielded.
end_of_stream(p) ==
    /\ ex[p].pc = "run"
    /\ ex[p].pending = {}
    /\ ex[p].next = Len(ex[p].order)
    /\ ex' = [ex EXCEPT ![p] =
            [@ EXCEPT !.pc = "done",
                      !.ret = IF ex[p].sink = "first_success"
                              THEN first_success_end(ex[p].last_error)
                              ELSE Ret("Stream", NoUri)]]
    /\ UNCHANGED <<now, cache, resolver, srv, policy, last_working_target, http_scheme,
                   path_prefix, fin, fout>>

\* The caller has its result; the call's state is dropped.
return(p) ==
    /\ ex[p].pc = "done"
    /\ ex' = [ex EXCEPT ![p] = IdleEx]
    /\ UNCHANGED <<now, cache, resolver, srv, policy, last_working_target, http_scheme,
                   path_prefix, fin, fout>>

\* SrvClient::resolver moving the old cache into the new client
SrvClient_resolver_keep_cache(r) ==
    /\ \A p \in Procs : ex[p].pc = "idle"
    /\ resolver' = r
    /\ UNCHANGED <<srv, now, cache, policy, last_working_target, http_scheme,
                   path_prefix, ex, fin, fout>>

\* SrvClient::resolver(self, r): the client is consumed, so no execute is in
\* progress; the new client has resolver r and a default cache, and keeps the
\* policy with what it remembers.
SrvClient_resolver(r) ==
    /\ \A p \in Procs : ex[p].pc = "idle"
    /\ resolver' = r
    /\ cache' = Cache_default(now)
    /\ UNCHANGED <<srv, now, policy, last_working_target, http_scheme, path_prefix,
                   ex, fin, fout>>

\* SrvClient::policy(self, pol): the new client has the policy pol, newly
\* built (an Affinity remembers nothing), and a default cache.
SrvClient_policy(pol) ==
    /\ \A p \in Procs : ex[p].pc = "idle"
    /\ policy' = pol
    /\ last_working_target' = None
    /\ cache' = Cache_default(now)
    /\ UNCHANGED <<now, resolver, srv, http_scheme, path_prefix, ex, fin, fout>>

\* The schemes and path prefixes a client is given.
Schemes == {Scheme_HTTPS, "http"}
PathPrefixes == {"/", "/bar"}

\* SrvClient::srv_name(self, name): Self { srv, ..self }; every other field,
\* the cache included, is moved into the new client as it is.
SrvClient_srv_name(name) ==
    /\ \A p \in Procs : ex[p].pc = "idle"
    /\ srv' = name
    /\ UNCHANGED <<now, cache, resolver, policy, last_working_target,
                   http_scheme, path_prefix, ex, fin, fout>>

\* SrvClient::http_scheme(self, scheme): Self { http_scheme, ..self }
SrvClient_http_scheme(scheme) ==
    /\ \A p \in Procs : ex[p].pc = "idle"
    /\ http_scheme' = scheme
    /\ UNCHANGED <<now, cache, resolver, srv, policy, last_working_target,
                   path_prefix, ex, fin, fout>>

\* SrvClient::path_prefix(self, path): Self { path_prefix, ..self }
SrvClient_path_prefix(path) ==
    /\ \A p \in Procs : ex[p].pc = "idle"
    /\ path_prefix' = path
    /\ UNCHANGED <<now, cache, resolver, srv, policy, last_working_target,
                   http_scheme, ex, fin, fout>>

\* Time passes.
Tick ==
    /\ now < MaxTime
    /\ now' = now + 1
    /\ UNCHANGED <<cache, resolver, srv, policy, last_working_target, http_scheme, path_prefix,
                   ex, fin, fout>>

Next ==
    \/ \E p \in Procs, m \in Modes : execute(p, m)
    \/ \E p \in Procs : lookup_failed(p)
    \/ \E p \in Procs : lookup_answered(p)
    \/ \E p \in Procs : dispatch(p)
    \/ \E p \in Procs : \E k \in ex[p].pending, ok \in BOOLEAN : complete(p, k, ok)
    \/ \E p \in Procs : end_of_stream(p)
    \/ \E p \in Procs : return(p)
    \/ \E r \in Resolvers : SrvClient_resolver(r)
    \/ \E pol \in Policies : SrvClient_policy(pol)
    \/ Tick

Spec == Init /\ [][Next]_vars

\* The client with every builder method: the service name, the scheme and the
\* path prefix can be set between executes as well.
NextBuilders ==
    \/ \E p \in Procs, m \in Modes : execute(p, m)
    \/ \E p \in Procs : lookup_failed(p)
    \/ \E p \in Procs : lookup_answered(p)
    \/ \E p \in Procs : dispatch(p)
    \/ \E p \in Procs : \E k \in ex[p].pending, ok \in BOOLEAN : complete(p, k, ok)
    \/ \E p \in Procs : end_of_stream(p)
    \/ \E p \in Procs : return(p)
    \/ Tick
    \/ \E name \in SrvNames : SrvClient_srv_name(name)
    \/ \E scheme \in Schemes : SrvClient_http_scheme(scheme)
    \/ \E path \in PathPrefixes : SrvClient_path_prefix(path)

SpecBuilders == Init /\ [][NextBuilders]_vars

\* Two callers share one client (execute takes &self): each is inside its own
\* execute, and their steps interleave in every way, all within one instant.
\* The client is built with the second resolver for the other name, whose
\* two records have different priorities.
Callers == {1, 2}

InitTwoCallers ==
    /\ now = 0
    /\ cache = Cache_default(0)
    /\ resolver = 2
    /\ srv = OTHER_SRV
    /\ policy \in Policies
    /\ last_working_target = None
    /\ http_scheme = Scheme_HTTPS
    /\ path_prefix = "/"
    /\ ex = [p \in Callers |-> IdleEx]
    /\ fin = <<>>
    /\ fout = <<>>

NextTwoCallers ==
    \/ \E p \in Callers, m \in Modes : execute(p, m)
    \/ \E p \in Callers : lookup_failed(p)
    \/ \E p \in Callers : lookup_answered(p)
    \/ \E p \in Callers : dispatch(p)
    \/ \E p \in Callers : \E k \in ex[p].pending, ok \in BOOLEAN : complete(p, k, ok)
    \/ \E p \in Callers : end_of_stream(p)
    \/ \E p \in Callers : return(p)

SpecTwoCallers == InitTwoCallers /\ [][NextTwoCallers]_vars

\* Two callers whose refreshes race while time passes: the client, built with
\* the second resolver one instant before the last, is shared by two callers
\* that execute in Concurrent mode an operation that succeeds.  A lookup
\* begun at one instant can be answered then or at the next.
InitRefreshRace ==
    /\ now = MaxTime - 1
    /\ cache = Cache_default(MaxTime - 1)
    /\ resolver = 2
    /\ srv = EXAMPLE_SRV
    /\ policy \in Policies
    /\ last_working_target = None
    /\ http_scheme = Scheme_HTTPS
    /\ path_prefix = "/"
    /\ ex = [p \in Callers |-> IdleEx]
    /\ fin = <<>>
    /\ fout = <<>>

NextRefreshRace ==
    \/ \E p \in Callers : execute(p, "Concurrent")
    \/ \E p \in Callers : lookup_answered(p)
    \/ \E p \in Callers : \E k \in ex[p].pending : complete(p, k, TRUE)
    \/ \E p \in Callers : end_of_stream(p)
    \/ \E p \in Callers : return(p)
    \/ Tick

SpecRefreshRace == InitRefreshRace /\ [][NextRefreshRace]_vars

\* ------------------------------------------- first_success, on its own
UriA == [scheme |-> Scheme_HTTPS, host |-> "a", port |-> PortOf("a"), path |-> "/"]
UriB == [scheme |-> Scheme_HTTPS, host |-> "b", port |-> PortOf("b"), path |-> "/"]

Results == {Ok(UriA), Ok(UriB), Err(UriA), Err(UriB)}

InitFirstSuccess ==
    /\ ClientInit
    /\ fin \in SeqsUpTo(Results, MaxLen)
    /\ fout = <<>>

\* first_success consumes the stream fin.
ApplyFirstSuccess ==
    /\ fout = <<>>
    /\ fout' = <<first_success(fin)>>
    /\ UNCHANGED <<clientVars, fin>>

SpecFirstSuccess == InitFirstSuccess /\ [][ApplyFirstSuccess]_vars

\* ------------------------------------------------ Cache::valid, on its own
InitValid ==
    /\ ClientInit
    /\ fin \in [cache : {Cache_new(items, t) : items \in SeqsUpTo({UriA, UriB}, MaxRecs),
                                               t \in 0..(MaxTime + MaxTtl)},
                 t : 0..(MaxTime + MaxTtl)]
    /\ fout = <<>>

\* valid() is called on the cache fin.cache at instant fin.t.
ApplyValid ==
    /\ fout = <<>>
    /\ fout' = <<valid(fin.cache, fin.t)>>
    /\ UNCHANGED <<clientVars, fin>>

SpecValid == InitValid /\ [][ApplyValid]_vars

\* ------------------------------------- Policy::refresh_cache, on its own
InitRefresh ==
    /\ ClientInit
    /\ fin \in [records : get_srv_records[resolver, srv], response_time : 0..MaxTime]
    /\ fout = <<>>

\* The policy builds a cache from the records fin.records that the lookup
\* answered at instant fin.response_time.
ApplyRefresh ==
    /\ fout = <<>>
    /\ fout' = <<policy_refresh_cache(policy, fin.records, fin.response_time,
                                      http_scheme, path_prefix)>>
    /\ UNCHANGED <<clientVars, fin>>

SpecRefresh == InitRefresh /\ [][ApplyRefresh]_vars

\* ------------------------- SrvResolver::get_srv_records, on its own
\* The errors of an unordered lookup.
ResolverErrors == {"lookup error"}

\* What an unordered lookup can return: an error, or up to MaxRecs records of
\* the first resolver's zone, a record possibly more than once, and the
\* instant until which they are valid.
UnorderedResults ==
    {Err(e) : e \in ResolverErrors} \cup
    {Ok([records |-> a, valid_until |-> t]) :
        a \in SeqsUpTo({x \in RecordPool : x.target \in Zone(1)}, MaxRecs),
        t \in 0..MaxTime}

InitOrderedLookup ==
    /\ ClientInit
    /\ fin \in [unordered : UnorderedResults, rnd : Draws(MaxRecs)]
    /\ fout = <<>>

\* get_srv_records on the unordered result fin.unordered, the rng giving
\* fin.rnd[i] for record i.
ApplyOrderedLookup ==
    /\ fout = <<>>
    /\ fout' = <<get_srv_records_of(fin.unordered, fin.rnd)>>
    /\ UNCHANGED <<clientVars, fin>>

SpecOrderedLookup == InitOrderedLookup /\ [][ApplyOrderedLookup]_vars

\* ------------------------------------------- Affinity::uris, on its own
UriC == [scheme |-> Scheme_HTTPS, host |-> "c", port |-> PortOf("c"), path |-> "/"]

Uris == {UriA, UriB, UriC}

InitAffinityUris ==
    /\ ClientInit
    /\ policy = "Affinity"
    /\ fin \in [cached : SeqsUpTo(Uris, MaxLen),
                 preferred : {None} \cup {Some(u) : u \in Uris}]
    /\ fout = <<>>

\* Affinity::uris_preferring(fin.cached, fin.preferred), collected.
ApplyAffinityUris ==
    /\ fout = <<>>
    /\ fout' = <<Affinity_uris(fin.cached, fin.preferred)>>
    /\ UNCHANGED <<clientVars, fin>>

SpecAffinityUris == InitAffinityUris /\ [][ApplyAffinityUris]_vars

\* -------------------------------------------- Rfc2782::uris, on its own
Priorities == {1, 2}
Weights == {0, 1, 2}

\* The cache items of Rfc2782: every priority with every weight.
ParsedRecords ==
    {ParsedRecord_new([priority |-> pr, weight |-> w], UriA) :
        pr \in Priorities, w \in Weights}

InitRfc2782Uris ==
    /\ ClientInit
    /\ policy = "Rfc2782"
    /\ fin \in [cached : SeqsUpTo(ParsedRecords, MaxLen), rnd : Draws(MaxLen)]
    /\ fout = <<>>

\* Rfc2782::uris(fin.cached), the rng giving fin.rnd[i] at its i-th draw (the
\* draws after the last item are not made).
ApplyRfc2782Uris ==
    /\ fout = <<>>
    /\ fout' = <<Rfc2782_uris(fin.cached, fin.rnd)>>
    /\ UNCHANGED <<clientVars, fin>>

SpecRfc2782Uris == InitRfc2782Uris /\ [][ApplyRfc2782Uris]_vars

\* ------------------------- record::sort_key at its full width, on its own
\* Weights and draws at the ends and in the middle of the u16 range.
U16Samples == {0, 1, 255, 256, 32768, U16_MAX}

\* The cache items of Rfc2782 with such weights.
WideRecords ==
    {ParsedRecord_new([priority |-> pr, weight |-> w], UriA) :
        pr \in Priorities, w \in U16Samples}

InitSortKey ==
    /\ ClientInit
    /\ policy = "Rfc2782"
    /\ fin \in [cached : [1..MaxRecs -> WideRecords], rnd : [1..MaxRecs -> U16Samples]]
    /\ fout = <<>>

\* Rfc2782::uris(fin.cached), the rng giving fin.rnd[i] at its i-th draw:
\* the key of each item, whether its multiplication lost bits, and the order.
ApplySortKey ==
    /\ fout = <<>>
    /\ fout' = <<[keys |-> [i \in 1..MaxRecs |->
                              sort_key(fin.cached[i].priority, fin.cached[i].weight,
                                       fin.rnd[i])],
                  overflow |-> [i \in 1..MaxRecs |->
                                  mul_u32(fin.cached[i].weight, fin.rnd[i]).overflow],
                  order |-> Rfc2782_uris(fin.cached, fin.rnd)]>>
    /\ UNCHANGED <<clientVars, fin>>

SpecSortKey == InitSortKey /\ [][ApplySortKey]_vars

\* ------------------------------------- the libresolv resolver, on its own
\* fin is the input of one call of LibResolv::get_srv_records_unordered, the
\* service name and the resolver's initial buffer size; fout is the state of
\* that call.
NS_PACKETSZ == 512
NS_MAXMSG == 65535

\* A service name is the sequence of its labels; NUL stands for a 0 byte.
NUL == "NUL"

KNOWN_SRV == <<"_http", "_tcp", "srv-client-rust", "deshaw", "org">>

\* The names of the tests invalid_host, malformed_srv_name and
\* very_malformed_srv_name.
UnknownSrvs ==
    {<<"_http", "_tcp", "foobar", "deshaw", "com">>,
     <<"_http", "foobar", "deshaw", "com">>,
     <<"  @#*^[_hsd flt", "com">>}

\* The name of the test srv_name_containing_nul_terminator.
NulSrv == <<"_http", NUL, "_tcp", "foo", "com">>

LibSrvs == {KNOWN_SRV, NulSrv} \cup UnknownSrvs

\* The initial buffer sizes: LibResolv::new takes any usize, the default is
\* NS_PACKETSZ.
BufSizes == {0, NS_PACKETSZ, NS_MAXMSG, NS_MAXMSG + 1}

\* What res_nsearch returns: -1, or the length of the answer.
AnswerLens == {-1, 0, NS_PACKETSZ, NS_PACKETSZ + 1, NS_MAXMSG, NS_MAXMSG + 1,
               NS_MAXMSG + 2}

\* The values of res_h_errno: NETDB_INTERNAL, NETDB_SUCCESS, HOST_NOT_FOUND,
\* TRY_AGAIN, NO_RECOVERY, NO_DATA.
HErrnos == {-1, 0, 1, 2, 3, 4}

\* CString::new: a 0 byte inside the name is an error.
CString_new(name) ==
    IF \E i \in 1..Len(name) : name[i] = NUL THEN Err(<<>>) ELSE Ok(name)

ResolverError(name, code) == [name |-> name, code |-> code]

\* LibResolvError
LibResolvError(kind, e) == [kind |-> kind, resolver |-> e]
NoResolverError == ResolverError("", 0)
InteriorNul == LibResolvError("InteriorNul", NoResolverError)
NotSrv == LibResolvError("NotSrv", NoResolverError)
AnswerTooLarge == LibResolvError("AnswerTooLarge", NoResolverError)
Resolver(e) == LibResolvError("Resolver", e)
NoLibResolvError == LibResolvError("", NoResolverError)

\* ResolverState::check: a return value below 0 is the error that
\* res_h_errno names, and no error when res_h_errno is 0.
check(err, res_h_errno) ==
    IF err >= 0
    THEN Ok(NoResolverError)
    ELSE CASE res_h_errno = 0 -> Ok(NoResolverError)
           [] res_h_errno = 1 -> Err(ResolverError("HostNotFound", 0))
           [] res_h_errno = 2 -> Err(ResolverError("TryAgain", 0))
           [] res_h_errno = 3 -> Err(ResolverError("NoRecovery", 0))
           [] res_h_errno = 4 -> Err(ResolverError("NoData", 0))
           [] OTHER -> Err(ResolverError("Unexpected", res_h_errno))

\* `len as usize` of a c_int, as <<wraps, len>>: the value is len when len is
\* not negative and 2^64 + len when it is.
as_usize(len) == IF len >= 0 THEN <<0, len>> ELSE <<1, len>>

\* <= on usize
usize_le(x, y) == x[1] < y[1] \/ (x[1] = y[1] /\ x[2] <= y[2])

\* Option<Duration>: None is below every Some.
NoDuration == [some |-> FALSE, v |-> 0]
SomeDuration(d) == [some |-> TRUE, v |-> d]
Option_min(a, b) ==
    IF ~a.some THEN a
    ELSE IF ~b.some THEN b
    ELSE IF a.v <= b.v THEN a ELSE b
Option_or(a, b) == IF a.some THEN a ELSE b
unwrap_or_default(a) == IF a.some THEN a.v ELSE 0

\* A resource record of an answer as the parsing functions see it: its type,
\* what ns_parserr returns for it, the length of its data, what dn_expand
\* returns for the name in its data, its ttl and the fields of the record.
ns_rr(type, parserr, rdlength, expand, ttl, target) ==
    [type |-> type, parserr |-> parserr, rdlength |-> rdlength, expand |-> expand,
     ttl |-> ttl, target |-> target, port |-> PortOf(target),
     priority |-> PriorityOf(target), weight |-> WeightOf(target)]

ZeroedRR == ns_rr("", 0, 0, 0, 0, "")

\* Two SRV records, a record of another type, a record ns_parserr fails on, a
\* SRV record whose name dn_expand fails on, one whose data is too short.
LibRRs ==
    {ns_rr("SRV", 0, 8, 1, MaxTtl, "a"),
     ns_rr("SRV", 0, 8, 1, 0, "b"),
     ns_rr("A", 0, 4, 1, MaxTtl, "a"),
     ns_rr("SRV", -1, 8, 1, MaxTtl, "a"),
     ns_rr("SRV", 0, 8, -1, MaxTtl, "a"),
     ns_rr("SRV", 0, 4, 1, MaxTtl, "a")}

\* The answer sections of the messages res_nsearch can leave in the buffer.
LibAnswers == SeqsUpTo(LibRRs, MaxRecs)

\* LibResolvSrvRecord
LibResolvSrvRecord(target, rr) ==
    [target |-> target, port |-> rr.port, priority |-> rr.priority, weight |-> rr.weight]

\* What the call has returned: nothing yet, Ok((records, valid_until)),
\* Err(error), or a panic.
NoResult == [status |-> "none", error |-> NoLibResolvError, records |-> <<>>,
             valid_until |-> 0]
LibOk(records, valid_until) == [NoResult EXCEPT !.status = "ok", !.records = records,
                                                !.valid_until = valid_until]
LibErr(e) == [NoResult EXCEPT !.status = "err", !.error = e]
LibPanic == [NoResult EXCEPT !.status = "panic"]

\* The call before its first step.  queries counts the calls of res_nsearch,
\* len is what the last one returned, unchecked records that a negative
\* return value was taken for no error.
LibStart ==
    [pc |-> "start", buf_len |-> 0, queries |-> 0, res_h_errno |-> 0, len |-> 0,
     response_time |-> 0, msg |-> <<>>, idx |-> 0, records |-> <<>>,
     min_ttl |-> NoDuration, unchecked |-> FALSE, result |-> NoResult]

LibDone(s, result) == [s EXCEPT !.pc = "done", !.result = result]

\* LibResolvSrvRecord::try_parse: the outcomes for the record rr, given what
\* res_h_errno holds.  After a dn_expand failure that check lets through, the
\* name buffer holds nothing or what dn_expand wrote before it failed.
try_parse(res_h_errno, rr) ==
    IF rr.type # "SRV"
    THEN {[kind |-> "err", error |-> NotSrv, target |-> "", unchecked |-> FALSE]}
    ELSE IF rr.rdlength < 6
    THEN {[kind |-> "panic", error |-> NoLibResolvError, target |-> "",
           unchecked |-> FALSE]}
    ELSE LET checked == check(rr.expand, res_h_errno)
         IN IF ~checked.ok
            THEN {[kind |-> "err", error |-> Resolver(checked.val), target |-> "",
                   unchecked |-> FALSE]}
            ELSE IF rr.expand < 0
            THEN {[kind |-> "ok", error |-> NoLibResolvError, target |-> t,
                   unchecked |-> TRUE] : t \in {"", rr.target}}
            ELSE {[kind |-> "ok", error |-> NoLibResolvError, target |-> rr.target,
                   unchecked |-> FALSE]}

\* What res_nsearch can answer for a name: for the names of the tests, -1
\* with HOST_NOT_FOUND; for the known name, anything.
res_nsearch(name) ==
    IF name \in UnknownSrvs
    THEN {[len |-> -1, res_h_errno |-> 1]}
    ELSE [len : AnswerLens, res_h_errno : HErrnos]

LibVars == <<now, cache, resolver, srv, policy, last_working_target, http_scheme,
             path_prefix, ex, fin>>

InitLibResolv ==
    /\ ClientInit
    /\ policy = "Rfc2782"
    /\ fin \in [srv : LibSrvs, initial_buf_size : BufSizes]
    /\ fout = LibStart

\* get_srv_records_unordered up to the loop: the name as a C string, and the
\* buffer.
lib_begin ==
    /\ fout.pc = "start"
    /\ fout' = IF CString_new(fin.srv).ok
               THEN [fout EXCEPT !.pc = "query", !.buf_len = fin.initial_buf_size]
               ELSE LibDone(fout, LibErr(InteriorNul))
    /\ UNCHANGED LibVars

\* One turn of the loop: res_nsearch with the buffer, check, and the three
\* branches on the length.
lib_query(answered) ==
    /\ fout.pc = "query"
    /\ LET s == [fout EXCEPT !.queries = @ + 1, !.len = answered.len,
                             !.res_h_errno = answered.res_h_errno]
           checked == check(answered.len, answered.res_h_errno)
           len == as_usize(answered.len)
       IN fout' =
            IF ~checked.ok THEN LibDone(s, LibErr(Resolver(checked.val)))
            ELSE IF usize_le(len, as_usize(s.buf_len))
            THEN [s EXCEPT !.pc = "initparse", !.response_time = now]
            ELSE IF usize_le(len, as_usize(NS_MAXMSG))
            THEN [s EXCEPT !.buf_len = answered.len]
            ELSE LibDone(s, LibErr(AnswerTooLarge))
    /\ UNCHANGED LibVars

\* ns_initparse on the answer in the buffer, returning ret, and
\* ns_msg_count.  After a failure that check lets through, the message
\* handle holds any message.
lib_initparse(answer, ret) ==
    /\ fout.pc = "initparse"
    /\ LET checked == check(ret, fout.res_h_errno)
       IN IF ~checked.ok
          THEN fout' = LibDone(fout, LibErr(Resolver(checked.val)))
          ELSE IF ret < 0
          THEN \E msg \in LibAnswers :
                  fout' = [fout EXCEPT !.pc = "records", !.msg = msg,
                                       !.unchecked = TRUE]
          ELSE fout' = [fout EXCEPT !.pc = "records", !.msg = answer]
    /\ UNCHANGED LibVars

\* one turn of the for loop that skips a record that is not a SRV record
lib_record_skip_other_types ==
    /\ fout.pc = "records"
    /\ fout.idx < Len(fout.msg)
    /\ LET found == fout.msg[fout.idx + 1]
           checked == check(found.parserr, fout.res_h_errno)
       IN IF ~checked.ok
          THEN fout' = LibDone(fout, LibErr(Resolver(checked.val)))
          ELSE \E rr \in (IF found.parserr < 0 THEN LibRRs \cup {ZeroedRR} ELSE {found}) :
               \E parsed \in try_parse(fout.res_h_errno, rr) :
                  fout' =
                    IF parsed.kind = "err" /\ parsed.error = NotSrv
                    THEN [fout EXCEPT !.idx = @ + 1]
                    ELSE IF parsed.kind = "err" THEN LibDone(fout, LibErr(parsed.error))
                    ELSE IF parsed.kind = "panic" THEN LibDone(fout, LibPanic)
                    ELSE [fout EXCEPT
                            !.idx = @ + 1,
                            !.records = Append(@, LibResolvSrvRecord(parsed.target, rr)),
                            !.min_ttl = Option_or(Option_min(@, SomeDuration(rr.ttl)),
                                                  SomeDuration(rr.ttl)),
                            !.unchecked = @ \/ found.parserr < 0 \/ parsed.unchecked]
    /\ UNCHANGED LibVars

\* One turn of the for loop: ns_parserr for the record at idx, check,
\* try_parse, push, and the smallest ttl.  After a ns_parserr failure that
\* check lets through, rr holds any record, or the zeroes it started with.
lib_record ==
    /\ fout.pc = "records"
    /\ fout.idx < Len(fout.msg)
    /\ LET found == fout.msg[fout.idx + 1]
           checked == check(found.parserr, fout.res_h_errno)
       IN IF ~checked.ok
          THEN fout' = LibDone(fout, LibErr(Resolver(checked.val)))
          ELSE \E rr \in (IF found.parserr < 0 THEN LibRRs \cup {ZeroedRR} ELSE {found}) :
               \E parsed \in try_parse(fout.res_h_errno, rr) :
                  fout' =
                    IF parsed.kind = "err" THEN LibDone(fout, LibErr(parsed.error))
                    ELSE IF parsed.kind = "panic" THEN LibDone(fout, LibPanic)
                    ELSE [fout EXCEPT
                            !.idx = @ + 1,
                            !.records = Append(@, LibResolvSrvRecord(parsed.target, rr)),
                            !.min_ttl = Option_or(Option_min(@, SomeDuration(rr.ttl)),
                                                  SomeDuration(rr.ttl)),
                            !.unchecked = @ \/ found.parserr < 0 \/ parsed.unchecked]
    /\ UNCHANGED LibVars

\* The end of the for loop: Ok((records, response_time + min_ttl)).
lib_return ==
    /\ fout.pc = "records"
    /\ fout.idx = Len(fout.msg)
    /\ fout' = LibDone(fout, LibOk(fout.records,
                                   fout.response_time + unwrap_or_default(fout.min_ttl)))
    /\ UNCHANGED LibVars

NextLibResolv ==
    \/ lib_begin
    \/ \E answered \in res_nsearch(fin.srv) : lib_query(answered)
    \/ \E answer \in LibAnswers, ret \in {0, -1} : lib_initparse(answer, ret)
    \/ lib_record
    \/ lib_return

SpecLibResolv == InitLibResolv /\ [][NextLibResolv]_vars

\* The same with every step that can be taken eventually taken: the call is
\* one function body that runs to its end.
SpecLibResolvFair == SpecLibResolv /\ WF_vars(NextLibResolv)

\* ------------------------------------------ the policy hooks, on their own
\* fin is the sequence of hooks reported so far, <<TRUE, uri>> for
\* note_success(uri) and <<FALSE, uri>> for note_failure(uri); fout[k] is what
\* the policy remembers after the k-th of them.
InitPolicyHooks == ClientInit /\ fin = <<>> /\ fout = <<>>

HookSuccess(uri) ==
    /\ Len(fin) < MaxHooks
    /\ last_working_target' = note_success(policy, last_working_target, uri)
    /\ fin' = Append(fin, <<TRUE, uri>>)
    /\ fout' = Append(fout, last_working_target')
    /\ UNCHANGED <<now, cache, resolver, srv, policy, http_scheme, path_prefix, ex>>

HookFailure(uri) ==
    /\ Len(fin) < MaxHooks
    /\ last_working_target' = note_failure(policy, last_working_target, uri)
    /\ fin' = Append(fin, <<FALSE, uri>>)
    /\ fout' = Append(fout, last_working_target')
    /\ UNCHANGED <<now, cache, resolver, srv, policy, http_scheme, path_prefix, ex>>

NextPolicyHooks ==
    \/ \E uri \in Uris : HookSuccess(uri)
    \/ \E uri \in Uris : HookFailure(uri)

SpecPolicyHooks == InitPolicyHooks /\ [][NextPolicyHooks]_vars

TypeOK ==
    /\ now \in 0..MaxTime
    /\ \A p \in Procs : ex[p].pc \in {"idle", "lookup", "run", "done"}

\* ================================================================ claims
\* A call that runs in Serial mode and is consumed by first_success.
SerialFirstSuccess(e) ==
    e.pc \in {"run", "done"} /\ e.mode = "Serial" /\ e.sink = "first_success"
    /\ e.ret.kind \notin {"Lookup", "RecordParsing"}

\* A call consumed by first_success that has a snapshot.
FirstSuccessCall(e) ==
    e.pc \in {"run", "done"} /\ e.sink = "first_success"
    /\ e.ret.kind \notin {"Lookup", "RecordParsing"}

\* ord holds every index 0..n-1 exactly once.
IsPermutation(ord, n) ==
    Len(ord) = n /\ \A i \in 0..(n - 1) : \E k \in 1..n : ord[k] = i

\* C1: for any finite result sequence, first_success returns the first
\* success of the sequence if there is one; otherwise the last failure if the
\* sequence is not empty; otherwise the NoTargets condition.
C1_FirstSuccess ==
    fout # <<>> =>
        LET oks == {i \in 1..Len(fin) : fin[i].ok}
        IN IF oks # {} THEN fout[1] = Ret("Ok", fin[Min(oks)].val)
           ELSE IF Len(fin) > 0 THEN fout[1] = Ret("Err", fin[Len(fin)].val)
           ELSE fout[1] = RetNoTargets

\* A failure, then a success, then a different success: the first success is
\* returned.
C1_Witness ==
    /\ fout # <<>>
    /\ Len(fin) = 3
    /\ ~fin[1].ok /\ fin[2].ok /\ fin[3].ok
    /\ fin[2].val # fin[3].val
    /\ fout[1] = Ret("Ok", fin[2].val)

\* C2: in Serial mode with first_success the candidates on which the
\* operation is invoked are a prefix of the policy order, a candidate is
\* invoked only after every earlier one has failed, and the call ends with the
\* first success: no candidate after it is invoked.
C2_SerialStopsAtFirstSuccess ==
    \A p \in Procs :
        LET e == ex[p]
        IN SerialFirstSuccess(e) =>
            /\ Len(e.invoked) <= Len(e.order)
            /\ \A k \in 1..Len(e.invoked) :
                   e.invoked[k] = candidate(e.snap, e.order[k])
            /\ Len(e.yielded) <= Len(e.invoked)
            /\ \A k \in 1..Len(e.yielded) : e.yielded[k].val = e.invoked[k]
            /\ \A k \in 1..(Len(e.invoked) - 1) :
                   k <= Len(e.yielded) /\ ~e.yielded[k].ok
            /\ (\E k \in 1..Len(e.yielded) : e.yielded[k].ok) =>
                   /\ e.pc = "done"
                   /\ Len(e.yielded) = Len(e.invoked)
                   /\ e.yielded[Len(e.yielded)].ok
                   /\ e.ret = Ret("Ok", e.invoked[Len(e.invoked)])

\* The first of two candidates succeeded: the call is over and the second
\* candidate was never invoked.
C2_Witness ==
    \E p \in Procs :
        /\ SerialFirstSuccess(ex[p])
        /\ ex[p].pc = "done"
        /\ ex[p].ret.kind = "Ok"
        /\ Len(ex[p].order) >= 2
        /\ Len(ex[p].invoked) = 1

\* C3: in Serial mode with first_success and an operation that fails on every
\* candidate, the operation is invoked on every candidate of the snapshot
\* exactly once, in policy order, and the error of the last candidate of that
\* order is returned.
C3_SerialAllFail ==
    \A p \in Procs :
        LET e == ex[p]
            n == Len(e.order)
        IN (SerialFirstSuccess(e) /\ e.pc = "done"
            /\ \A k \in 1..Len(e.yielded) : ~e.yielded[k].ok) =>
            /\ IsPermutation(e.order, Len(e.snap.items))
            /\ e.invoked = [k \in 1..n |-> candidate(e.snap, e.order[k])]
            /\ e.yielded = [k \in 1..n |-> Err(candidate(e.snap, e.order[k]))]
            /\ n > 0 => e.ret = Ret("Err", candidate(e.snap, e.order[n]))

\* Two candidates, both failed, the error is returned.
C3_Witness ==
    \E p \in Procs :
        /\ SerialFirstSuccess(ex[p])
        /\ ex[p].pc = "done"
        /\ Len(ex[p].order) >= 2
        /\ ex[p].ret.kind = "Err"
        /\ ex[p].snap.items[1] # ex[p].snap.items[2]

\* C4: when the refresh succeeds with zero records, execute with
\* first_success yields NoTargets, the operation is never invoked and no
\* policy hook is called; NoTargets is never returned once an attempt was made.
C4_NoTargets ==
    \A p \in Procs :
        LET e == ex[p]
        IN FirstSuccessCall(e) =>
            /\ (e.answer.status = "ok" /\ e.answer.n = 0) =>
                   /\ e.invoked = <<>>
                   /\ e.noted = <<>>
                   /\ e.yielded = <<>>
                   /\ e.pc = "done" => e.ret = RetNoTargets
            /\ e.ret = RetNoTargets => (e.invoked = <<>> /\ e.pc = "done")
            /\ e.invoked # <<>> => e.ret.kind \in {"Pending", "Ok", "Err"}

\* A refresh that stored an empty cache ended in NoTargets.
C4_Witness ==
    \E p \in Procs :
        /\ FirstSuccessCall(ex[p])
        /\ ex[p].pc = "done"
        /\ ex[p].answer.status = "ok"
        /\ ex[p].stores = 1
        /\ ex[p].ret = RetNoTargets

\* C5: a cache is valid at an instant iff it holds at least one item and the
\* instant is not after its expiration; the expiration instant itself still
\* counts as valid, an empty cache is invalid whatever its expiration.
C5_ValidIff ==
    fout # <<>> =>
        /\ fout[1] <=> (Len(fin.cache.items) >= 1 /\ fin.t <= fin.cache.valid_until)
        /\ fin.cache.items = <<>> => ~fout[1]
        /\ (fin.cache.items # <<>> /\ fin.t = fin.cache.valid_until) => fout[1]

\* A non-empty cache asked at exactly its expiration instant is valid.
C5_Witness ==
    /\ fout = <<TRUE>>
    /\ fin.t = fin.cache.valid_until
    /\ fin.t > 0

\* A default cache: no items.
IsDefault(c) == \E t \in 0..(MaxTime + MaxTtl) : c = Cache_default(t)

\* C6: the default cache is never valid, so an execute that reads it from the
\* slot (the first one on a new client) performs a lookup before any
\* operation is dispatched.
C6_DefaultCacheForcesLookup ==
    /\ \A t \in 0..MaxTime : ~valid(Cache_default(t), now)
    /\ \A p \in Procs :
        LET e == ex[p]
        IN (e.pc # "idle" /\ IsDefault(e.loaded)) =>
            /\ ~e.hit
            /\ e.lookups = 1
            /\ e.invoked # <<>> => (e.answer.status = "ok" /\ e.stores = 1)

\* An execute that read the default cache has dispatched an operation.
C6_Witness ==
    \E p \in Procs :
        /\ ex[p].loaded = Cache_default(0)
        /\ ex[p].pc = "run"
        /\ ex[p].invoked # <<>>
        /\ ex[p].lookups = 1

\* C7: an execute that reads a valid snapshot from the slot performs no
\* lookup, cannot fail with a lookup or parsing error, leaves the slot as it
\* is and takes its candidates from that snapshot.
C7_ValidSnapshotIsUsed ==
    \A p \in Procs :
        LET e == ex[p]
        IN (e.pc # "idle" /\ valid(e.loaded, e.loaded_at)) =>
            /\ e.hit
            /\ e.pc \in {"run", "done"}
            /\ e.lookups = 0
            /\ e.stores = 0
            /\ e.answer = NoAnswer
            /\ e.ret.kind \notin {"Lookup", "RecordParsing"}
            /\ e.snap = e.loaded
            /\ cache = e.loaded
            /\ \A k \in 1..Len(e.invoked) :
                   \E i \in 1..Len(e.loaded.items) :
                       e.invoked[k] = cache_item_to_uri(policy, e.loaded.items[i])

\* An execute served from the cached snapshot, at a later instant than the
\* refresh, has succeeded.
C7_Witness ==
    \E p \in Procs :
        /\ ex[p].hit
        /\ ex[p].pc = "done"
        /\ ex[p].ret.kind = "Ok"
        /\ ex[p].loaded_at > 0

\* C8: when the lookup of a refresh fails, execute returns the Lookup error,
\* the slot is left as it was, the operation is never invoked, and the lookup
\* is not retried: an execute performs at most one lookup.
C8_LookupError ==
    \A p \in Procs :
        LET e == ex[p]
        IN /\ e.lookups <= 1
           /\ e.answer.status = "error" =>
                /\ e.pc = "done"
                /\ e.ret = Ret("Lookup", NoUri)
                /\ e.lookups = 1
                /\ e.stores = 0
                /\ cache = e.loaded
                /\ e.invoked = <<>>
                /\ e.noted = <<>>

\* A lookup failed while the slot held an expired, non-empty cache, which is
\* still there.
C8_Witness ==
    \E p \in Procs :
        /\ ex[p].answer.status = "error"
        /\ ex[p].ret.kind = "Lookup"
        /\ cache.items # <<>>

\* C9: when a record of a successful lookup does not parse, the refresh fails
\* with a parsing error: nothing is stored, not even the records that did
\* parse, and no operation is dispatched.
C9_ParseErrorFailsRefresh ==
    \A p \in Procs :
        LET e == ex[p]
        IN (e.answer.status = "ok" /\ e.answer.bad >= 1) =>
            /\ e.pc = "done"
            /\ e.ret = Ret("RecordParsing", NoUri)
            /\ e.stores = 0
            /\ cache = e.loaded
            /\ e.invoked = <<>>
            /\ e.noted = <<>>

\* A lookup answered two records of which one parses and one does not.
C9_Witness ==
    \E p \in Procs :
        /\ ex[p].answer.status = "ok"
        /\ ex[p].answer.n = 2
        /\ ex[p].answer.bad = 1
        /\ ex[p].ret.kind = "RecordParsing"

\* C10 as stated: no operation is dispatched to a candidate of a snapshot
\* that was empty or past its expiration when the execute acquired it, a
\* snapshot just obtained from a refresh included.
C10_NeverServesInvalid ==
    \A p \in Procs :
        ex[p].invoked # <<>> => valid(ex[p].snap, ex[p].acquired_at)

\* C10, amended: no operation is dispatched to a candidate of an empty
\* snapshot, nor of a snapshot read from the slot that was empty or past its
\* expiration when it was read; a snapshot is used without a check of its
\* expiration only when the same execute has just stored it after its one
\* lookup.
C10_NeverServesInvalidFromSlot ==
    \A p \in Procs :
        LET e == ex[p]
        IN e.invoked # <<>> =>
            /\ e.snap.items # <<>>
            /\ e.hit => (e.snap = e.loaded /\ valid(e.snap, e.acquired_at)
                         /\ e.acquired_at = e.loaded_at)
            /\ ~e.hit => (~valid(e.loaded, e.loaded_at) /\ e.lookups = 1
                          /\ e.stores = 1 /\ e.answer.status = "ok")

\* An operation was dispatched from a snapshot read from the slot at its
\* last valid instant.
C10_Witness ==
    \E p \in Procs :
        /\ ex[p].hit
        /\ ex[p].invoked # <<>>
        /\ ex[p].acquired_at = ex[p].snap.valid_until
        /\ ex[p].acquired_at > 0

\* C11: a refreshed cache expires at the lookup's answer instant plus the
\* smallest time-to-live of the records answered (plus nothing when there are
\* no records), so it is valid at no instant at which one of its records has
\* outlived its own time-to-live.
C11_ExpiresWithFirstRecord ==
    (fout # <<>> /\ fout[1].ok) =>
        LET c == fout[1].val
            n == Len(fin.records)
            expiry(i) == fin.response_time + fin.records[i].ttl
        IN /\ Len(c.items) = n
           /\ n = 0 => c.valid_until = fin.response_time
           /\ n > 0 => \A i \in 1..n : c.valid_until <= expiry(i)
           /\ n > 0 => \E i \in 1..n : c.valid_until = expiry(i)
           /\ \A t \in 0..(MaxTime + MaxTtl), i \in 1..n :
                  valid(c, t) => t <= expiry(i)

\* Two records with different times-to-live, answered after instant 0: the
\* cache is valid up to the expiry of the shorter one and not after it.
C11_Witness ==
    /\ fout # <<>>
    /\ fout[1].ok
    /\ Len(fin.records) = 2
    /\ fin.records[1].ttl < fin.records[2].ttl
    /\ fin.response_time > 0
    /\ valid(fout[1].val, fin.response_time + fin.records[1].ttl)
    /\ ~valid(fout[1].val, fin.response_time + fin.records[2].ttl)

\* C12: Affinity orders n items with remembered address a by emitting p, the
\* index of the first item equal to a (0 when nothing is remembered or a is
\* not in the list), and then 0..n-1 in original order without p; the result
\* holds every index exactly once and is empty for n = 0.
C12_AffinityOrder ==
    fout # <<>> =>
        LET cached == fin.cached
            n == Len(cached)
            a == fin.preferred
            hits == {i \in 0..(n - 1) : a.some /\ cached[i + 1] = a.v}
            p == IF hits # {} THEN Min(hits) ELSE 0
            rest == SelectSeq([k \in 1..n |-> k - 1], LAMBDA x : x # p)
            A == UriA
            B == UriB
            C == UriC
        IN /\ fout[1] = IF n = 0 THEN <<>> ELSE <<p>> \o rest
           /\ IsPermutation(fout[1], n)
           /\ cached = <<A, B, C>> =>
                /\ a \in {None, Some(A)} => fout[1] = <<0, 1, 2>>
                /\ a = Some(B) => fout[1] = <<1, 0, 2>>
                /\ a = Some(C) => fout[1] = <<2, 0, 1>>

\* [A,B,C] with the last item remembered is ordered C, A, B.
C12_Witness ==
    /\ fin = [cached |-> <<UriA, UriB, UriC>>, preferred |-> Some(UriC)]
    /\ fout = << <<2, 0, 1>> >>

\* The caller p reports a success to the policy in this step.
ReportsSuccess(p) ==
    /\ Len(ex'[p].noted) = Len(ex[p].noted) + 1
    /\ ex'[p].noted[Len(ex'[p].noted)][1]

\* The caller p reports a failure to the policy in this step.
ReportsFailure(p) ==
    /\ Len(ex'[p].noted) = Len(ex[p].noted) + 1
    /\ ~ex'[p].noted[Len(ex'[p].noted)][1]

\* The execute of caller p gets its snapshot and its order in this step.
AcquiresSnapshot(p) == ex[p].pc \in {"idle", "lookup"} /\ ex'[p].pc = "run"

\* C13: with Affinity, a reported success on address X is remembered and no
\* other step of an execute changes what is remembered; an execute that then
\* acquires a snapshot in which X is present, at whatever index and whether
\* read from the slot or just refreshed, has X first in its order and attempts
\* it first; when X is not in the snapshot (or nothing is remembered) the
\* order is the discovery order 0..n-1.
C13_AffinityPrefersLastSuccess ==
    [][policy = "Affinity" =>
        /\ \A p \in Procs :
              ReportsSuccess(p) =>
                last_working_target' = Some(ex'[p].noted[Len(ex'[p].noted)][2])
        /\ (ex' # ex /\ \A p \in Procs : ~ReportsSuccess(p)) =>
                last_working_target' = last_working_target
        /\ \A p \in Procs :
              LET f == ex'[p]
                  n == Len(f.snap.items)
                  X == last_working_target
                  hits == {i \in 0..(n - 1) : X.some /\ f.snap.items[i + 1] = X.v}
              IN /\ (AcquiresSnapshot(p) /\ hits # {}) =>
                        /\ f.order[1] = Min(hits)
                        /\ f.snap.items[f.order[1] + 1] = X.v
                        /\ f.invoked # <<>> => f.invoked[1] = X.v
                 /\ (AcquiresSnapshot(p) /\ hits = {}) =>
                        f.order = [k \in 1..n |-> k - 1]
                 /\ (ex[p].pc = "run" /\ ex[p].invoked = <<>> /\ f.invoked # <<>>) =>
                        f.invoked[1] = f.snap.items[f.order[1] + 1]
    ]_vars

\* An execute has refreshed the cache and found the remembered address at
\* another index than 0: it is first in the order.
C13_Witness ==
    \E p \in Procs :
        /\ policy = "Affinity"
        /\ ex[p].pc = "run"
        /\ ex[p].stores = 1
        /\ ex[p].noted = <<>>
        /\ last_working_target.some
        /\ Len(ex[p].order) >= 2
        /\ ex[p].order[1] > 0
        /\ ex[p].snap.items[ex[p].order[1] + 1] = last_working_target.v

\* C14: with Affinity, when a success on an address is reported again right
\* after a success on the same address, the ordering of every item list is
\* the same after the second report as after the first.
C14_NoteSuccessIdempotent ==
    policy = "Affinity" =>
        \A k \in 1..(Len(fin) - 1) :
            (fin[k][1] /\ fin[k + 1] = fin[k]) =>
                \A cached \in SeqsUpTo(Uris, MaxLen) :
                    order(policy, cached, fout[k + 1]) = order(policy, cached, fout[k])

\* A success on A, then two successes in a row on B: B is first of [A,B,C]
\* after each of the two.
C14_Witness ==
    /\ policy = "Affinity"
    /\ fin = << <<TRUE, UriA>>, <<TRUE, UriB>>, <<TRUE, UriB>> >>
    /\ order(policy, <<UriA, UriB, UriC>>, fout[2]) = {<<1, 0, 2>>}
    /\ order(policy, <<UriA, UriB, UriC>>, fout[3]) = {<<1, 0, 2>>}

\* C15: with Affinity, a failure reported on any address, the remembered one
\* included, leaves the remembered address as it is, and with it the order of
\* the next execute over the same snapshot.
C15_NoteFailureNoOp ==
    [][\A p \in Procs :
        (policy = "Affinity" /\ ReportsFailure(p)) =>
            /\ last_working_target' = last_working_target
            /\ order(policy, ex[p].snap.items, last_working_target')
                   = order(policy, ex[p].snap.items, last_working_target)
    ]_vars

\* A Serial execute served from the slot has failed on every candidate, the
\* remembered address included, and that address is still remembered.
C15_Witness ==
    \E p \in Procs :
        /\ policy = "Affinity"
        /\ SerialFirstSuccess(ex[p])
        /\ ex[p].pc = "done"
        /\ ex[p].ret.kind = "Err"
        /\ Len(ex[p].order) >= 2
        /\ last_working_target.some
        /\ ex[p].noted[1] = <<FALSE, last_working_target.v>>
        /\ ex[p].order[1] > 0

\* C16: every ordering of Rfc2782 holds each index of the item list exactly
\* once and the priority never decreases from one position to the next,
\* whatever the draws and the weights are, weight 0 included.
C16_PriorityNonDecreasing ==
    fout # <<>> =>
        LET ord == fout[1]
            n == Len(fin.cached)
        IN /\ IsPermutation(ord, n)
           /\ \A k \in 1..(n - 1) :
                  fin.cached[ord[k] + 1].priority <= fin.cached[ord[k + 1] + 1].priority

\* Three items of priorities 2, 1, 2, the second of weight 0: it comes first.
C16_Witness ==
    /\ fout # <<>>
    /\ Len(fin.cached) = 3
    /\ fin.cached[1].priority = 2
    /\ fin.cached[2].priority = 1
    /\ fin.cached[2].weight = 0
    /\ fin.cached[3].priority = 2
    /\ fout[1][1] = 1

\* ord is what a stable sort of the items of cached by ascending priority and
\* then descending weight * r[i] gives, r[i] being the number drawn for item
\* i - 1: no position is followed by one that sorts before it, and items of
\* equal key keep their original order.
SortedWith(ord, cached, r) ==
    /\ IsPermutation(ord, Len(cached))
    /\ \A k \in 1..(Len(cached) - 1) :
          LET x == ord[k] + 1
              y == ord[k + 1] + 1
              px == cached[x].weight * r[x]
              py == cached[y].weight * r[y]
          IN \/ cached[x].priority < cached[y].priority
             \/ cached[x].priority = cached[y].priority /\ px > py
             \/ cached[x].priority = cached[y].priority /\ px = py /\ x < y

\* C17 as stated: an ordering of Rfc2782 sorts the items of equal priority
\* by descending weight * r with one number r drawn for the whole call and
\* shared by all its items.
C17_OneDrawPerCall ==
    fout # <<>> =>
        \E r \in 0..MaxRand :
            SortedWith(fout[1], fin.cached, [i \in 1..Len(fin.cached) |-> r])

\* C17, amended: an ordering of Rfc2782 sorts the items of equal priority by
\* descending weight * r_i, where a number r_i is drawn for each item of the
\* call separately; items whose products are equal keep their original order.
C17_OneDrawPerItem ==
    fout # <<>> => SortedWith(fout[1], fin.cached, fin.rnd)

\* Two items of one priority, of weights 2 and 1: the draws 0 and 1 put the
\* lighter one first.
C17_Witness ==
    /\ fout = << <<1, 0>> >>
    /\ Len(fin.cached) = 2
    /\ fin.cached[1].priority = fin.cached[2].priority
    /\ fin.cached[1].weight = 2
    /\ fin.cached[2].weight = 1
    /\ fin.rnd[1] = 0
    /\ fin.rnd[2] = 1

\* C18: Rfc2782 keeps no state: whatever successes and failures were
\* reported, nothing is remembered, and the orderings it can produce for a
\* snapshot are those of a policy that was never told anything; the order of
\* every execute, looked at before its first result, is one of them.
C18_Rfc2782Stateless ==
    policy = "Rfc2782" =>
        /\ last_working_target = None
        /\ \A p \in Procs :
              (ex[p].pc = "run" /\ ex[p].noted = <<>>) =>
                LET fresh == order(policy, ex[p].snap.items, None)
                IN /\ last_working_target # None =>
                        order(policy, ex[p].snap.items, last_working_target) = fresh
                   /\ ex[p].order \in fresh

\* An execute served from the slot, after an earlier execute, has reported a
\* failure and a success to Rfc2782.
C18_Witness ==
    \E p \in Procs :
        /\ policy = "Rfc2782"
        /\ ex[p].hit
        /\ ex[p].pc = "done"
        /\ \E k \in 1..Len(ex[p].noted) : ex[p].noted[k][1]
        /\ \E k \in 1..Len(ex[p].noted) : ~ex[p].noted[k][1]

\* The priority of the record a cache item was made from.
ItemPriority(item) ==
    IF policy = "Affinity" THEN PriorityOf(item.host) ELSE item.priority

\* The priority of the target at position k of the order of a call.
PriorityAt(e, k) == ItemPriority(e.snap.items[e.order[k] + 1])

\* C19 as stated: within a Serial execute, under either policy, no target is
\* attempted while a target of the same snapshot with a lower priority number
\* is still unattempted.
C19_PriorityTiersInOrder ==
    \A p \in Procs :
        LET e == ex[p]
        IN (e.pc \in {"run", "done"} /\ e.mode = "Serial") =>
            \A k \in 1..Len(e.invoked), j \in 1..Len(e.order) :
                j > k => PriorityAt(e, k) <= PriorityAt(e, j)

\* C19, amended: within a Serial execute no target is attempted while a
\* target of the same snapshot with a lower priority number is unattempted,
\* except for the first attempt of Affinity when it is not on the first item
\* of the snapshot: that attempt is on the remembered address, whatever its
\* priority.
C19_PriorityTiersAfterPreferred ==
    \A p \in Procs :
        LET e == ex[p]
        IN (e.pc \in {"run", "done"} /\ e.mode = "Serial") =>
            /\ \A k \in 1..Len(e.invoked), j \in 1..Len(e.order) :
                  j > k =>
                    \/ PriorityAt(e, k) <= PriorityAt(e, j)
                    \/ policy = "Affinity" /\ k = 1 /\ e.order[1] # 0
            /\ (policy = "Affinity" /\ Len(e.order) > 0 /\ e.order[1] # 0
                    /\ e.noted = <<>>) =>
                  last_working_target = Some(candidate(e.snap, e.order[1]))

\* Affinity has attempted the remembered address, of priority 2, while the
\* target of priority 1 of the same snapshot is unattempted.
C19_Witness ==
    \E p \in Procs :
        /\ policy = "Affinity"
        /\ ex[p].pc = "run"
        /\ ex[p].mode = "Serial"
        /\ Len(ex[p].order) = 2
        /\ Len(ex[p].invoked) = 1
        /\ PriorityAt(ex[p], 1) = 2
        /\ PriorityAt(ex[p], 2) = 1

\* The item belongs to a cache built by the policy pol from an answer of the
\* resolver r.
ItemFits(item, pol, r) ==
    IF pol = "Affinity"
    THEN DOMAIN item = DOMAIN NoUri /\ item.host \in Zone(r)
    ELSE DOMAIN item = {"uri", "priority", "weight"} /\ item.uri.host \in Zone(r)

\* C20: a step that replaces the resolver or the policy leaves the default
\* cache in the slot, which is valid at no instant; an execute that finds the
\* default cache in the slot starts a lookup and has dispatched nothing; and
\* every candidate an operation is dispatched to comes from a snapshot built
\* by the client's present policy from an answer of its present resolver.
C20_ReconfigurationResetsCache ==
    [][/\ (resolver' # resolver \/ policy' # policy) =>
            /\ cache' = Cache_default(now)
            /\ \A t \in 0..MaxTime : ~valid(cache', t)
            /\ \A p \in Procs : ex'[p].pc = "idle"
       /\ \A p \in Procs :
            (ex[p].pc = "idle" /\ ex'[p].pc # "idle" /\ IsDefault(cache)) =>
                /\ ex'[p].pc = "lookup"
                /\ ex'[p].lookups = 1
                /\ ex'[p].invoked = <<>>
       /\ \A p \in Procs :
            ex'[p].invoked # <<>> =>
                /\ \A i \in 1..Len(ex'[p].snap.items) :
                       ItemFits(ex'[p].snap.items[i], policy', resolver')
                /\ \A k \in 1..Len(ex'[p].invoked) :
                       ex'[p].invoked[k].host \in Zone(resolver')
    ]_vars

\* An address of the first resolver's zone is remembered from an execute
\* before the resolver was replaced, and an operation is dispatched to an
\* address of the second resolver's zone.
C20_Witness ==
    \E p \in Procs :
        /\ resolver = 2
        /\ last_working_target.some
        /\ last_working_target.v.host \in Zone(1)
        /\ ex[p].invoked # <<>>
        /\ ex[p].invoked[1].host \in Zone(2)

\* C21 as stated: setting the service name, the scheme or the path prefix
\* resets the cache, so no operation is ever dispatched to an address that was
\* cached for another service name, scheme or path prefix than the client's
\* present ones.
C21_SettersResetCache ==
    \A p \in Procs :
        \A k \in 1..Len(ex[p].invoked) :
            /\ ex[p].invoked[k].host \in ZoneOf(resolver, srv)
            /\ ex[p].invoked[k].scheme = http_scheme
            /\ ex[p].invoked[k].path = path_prefix

\* The cache that one successful refresh of the client builds from an answer
\* described by `answer`, received at an instant of from..to.
BuiltByOneRefresh(c, answer, from, to) ==
    \E records \in get_srv_records[resolver, srv], t \in from..to :
        LET refreshed == policy_refresh_cache(policy, records, t, http_scheme,
                                              path_prefix)
        IN /\ AnswerOf(records) = answer
           /\ refreshed.ok
           /\ c = refreshed.val

\* C22: in every interleaving of two callers' executions the slot holds the
\* default cache or a cache built entirely from one successful refresh, and it
\* is replaced wholesale: it holds the default cache at first, and whenever
\* it changes, its new value is exactly
\* the cache (items and expiration) that one caller's refresh built from the
\* answer to that caller's lookup, which is also the snapshot that caller uses.
C22_SlotHoldsOneRefresh ==
    /\ IsDefault(cache)
    /\ [][cache' # cache =>
            \E p \in Callers :
                /\ ex[p].pc = "lookup"
                /\ ex'[p].stores = ex[p].stores + 1
                /\ ex'[p].snap = cache'
                /\ BuiltByOneRefresh(cache', ex'[p].answer, ex[p].loaded_at, now)]_vars

\* Both callers looked up and stored: the slot holds the cache of the second
\* to store while the first still runs on its own, different one.
C22_Witness ==
    \E p, q \in Callers :
        /\ p # q
        /\ ex[p].pc = "run" /\ ex[p].stores = 1
        /\ ex[q].pc = "run" /\ ex[q].stores = 1
        /\ ex[p].snap # ex[q].snap
        /\ ex[p].snap.items # <<>> /\ ex[q].snap.items # <<>>
        /\ ex[p].snap.valid_until # ex[q].snap.valid_until
        /\ cache = ex[q].snap

\* A call that has acquired a snapshot.
HasSnapshot(e) ==
    e.pc \in {"run", "done"} /\ e.ret.kind \notin {"Lookup", "RecordParsing"}

\* C23: an execution keeps the snapshot and the order it acquired, whatever
\* the other execution does to the slot; every index of its order is an index
\* of that snapshot, the operation is invoked on the snapshot's address at
\* the index dispatched, and every address reported to a policy hook or
\* yielded is an address the operation was invoked on.
C23_SnapshotIsolation ==
    /\ [](\A p \in Callers :
            LET e == ex[p]
            IN HasSnapshot(e) =>
                /\ \A k \in 1..Len(e.order) : e.order[k] \in 0..(Len(e.snap.items) - 1)
                /\ Len(e.invoked) <= Len(e.order)
                /\ \A k \in 1..Len(e.invoked) :
                      e.invoked[k] = candidate(e.snap, e.order[k])
                /\ \A k \in 1..Len(e.noted) :
                      /\ \E j \in 1..Len(e.invoked) : e.noted[k][2] = e.invoked[j]
                      /\ e.yielded[k].val = e.noted[k][2])
    /\ [][\A p \in Callers :
            (HasSnapshot(ex[p]) /\ ex'[p].pc # "idle") =>
                (ex'[p].snap = ex[p].snap /\ ex'[p].order = ex[p].order)]_vars

\* A Serial execution in progress has invoked the operation on an address of
\* its snapshot while the slot, replaced by the other caller, holds another
\* address at that index.
C23_Witness ==
    \E p \in Callers :
        /\ ex[p].pc = "run"
        /\ ex[p].mode = "Serial"
        /\ ex[p].stores = 1
        /\ Len(ex[p].invoked) >= 1
        /\ cache # ex[p].snap
        /\ ex[p].order[1] < Len(cache.items)
        /\ candidate(cache, ex[p].order[1]) # ex[p].invoked[1]

\* How many times x occurs in the sequence s.
Count(s, x) == Cardinality({k \in 1..Len(s) : s[k] = x})

\* The index of the last success reported by a call, 0 if there is none.
LastSuccess(e) ==
    IF \E k \in 1..Len(e.noted) : e.noted[k][1]
    THEN CHOOSE k \in 1..Len(e.noted) :
            e.noted[k][1] /\ \A j \in (k + 1)..Len(e.noted) : ~e.noted[j][1]
    ELSE 0

\* C24: every attempt that ended is reported to the policy exactly once, a
\* success to note_success and an error to note_failure, with the address it
\* was made on, and no later than its outcome is yielded: the k-th report is
\* the k-th outcome yielded, every attempt is either in flight or reported, what
\* first_success returns was reported last, and Affinity already remembers the
\* address of the last success reported.
C24_EveryOutcomeReported ==
    \A p \in Procs :
        LET e == ex[p]
            n == Len(e.noted)
        IN HasSnapshot(e) =>
            /\ n = Len(e.yielded)
            /\ \A k \in 1..n : e.noted[k] = <<e.yielded[k].ok, e.yielded[k].val>>
            /\ e.pc = "run" => n + Cardinality(e.pending) = Len(e.invoked)
            /\ \A k \in 1..n :
                 Count([j \in 1..n |-> e.noted[j][2]], e.noted[k][2])
                    <= Count(e.invoked, e.noted[k][2])
            /\ e.ret.kind \in {"Ok", "Err"} =>
                 (n > 0 /\ e.noted[n] = <<e.ret.kind = "Ok", e.ret.val>>)
            /\ (policy = "Affinity" /\ LastSuccess(e) > 0) =>
                 last_working_target = Some(e.noted[LastSuccess(e)][2])

\* first_success has returned a success that came after a failure: both were
\* reported, the failure first.
C24_Witness ==
    \E p \in Procs :
        /\ ex[p].pc = "done"
        /\ ex[p].ret.kind = "Ok"
        /\ Len(ex[p].noted) = 2
        /\ ~ex[p].noted[1][1]
        /\ ex[p].noted[2][1]
        /\ ex[p].noted[1][2] # ex[p].noted[2][2]

\* C25 as stated: within one execute the operation is invoked at most once
\* per cache item and no address is attempted twice, whatever records the
\* resolver returned.
C25_NeverRetries ==
    \A p \in Procs :
        LET e == ex[p]
        IN HasSnapshot(e) =>
            /\ Injective(e.order)
            /\ Len(e.invoked) <= Len(e.snap.items)
            /\ Injective(e.invoked)

\* C26: in Serial mode, whoever consumes the results, the k-th operation
\* started and the k-th result yielded are on the k-th candidate of the policy
\* order, at most one operation is in flight, and it is the last one started:
\* every operation started before it has completed and was reported to the
\* policy.
C26_SerialKeepsPolicyOrder ==
    \A p \in Procs :
        LET e == ex[p]
        IN (HasSnapshot(e) /\ e.mode = "Serial") =>
            /\ Len(e.invoked) = e.next
            /\ \A k \in 1..Len(e.invoked) :
                   e.invoked[k] = candidate(e.snap, e.order[k])
            /\ \A k \in 1..Len(e.yielded) :
                   e.yielded[k].val = candidate(e.snap, e.order[k])
            /\ e.pending \subseteq {Len(e.invoked)}
            /\ Len(e.noted) = Len(e.invoked) - Cardinality(e.pending)
            /\ Len(e.yielded) = Len(e.noted)

\* A Serial stream consumed to its end: a success on the first candidate, then
\* a failure on the second, another address.
C26_Witness ==
    \E p \in Procs :
        /\ ex[p].pc = "done"
        /\ ex[p].mode = "Serial"
        /\ ex[p].sink = "stream"
        /\ Len(ex[p].yielded) = 2
        /\ ex[p].yielded[1].ok
        /\ ~ex[p].yielded[2].ok
        /\ ex[p].yielded[1].val # ex[p].yielded[2].val

\* C27: in Concurrent mode, from the moment execute has built the stream and
\* so before any result is yielded, the operation has been invoked on every
\* candidate of the snapshot, in policy order, whatever the order of the
\* results.
C27_ConcurrentStartsAll ==
    \A p \in Procs :
        LET e == ex[p]
        IN (HasSnapshot(e) /\ e.mode = "Concurrent") =>
            /\ IsPermutation(e.order, Len(e.snap.items))
            /\ e.invoked = [k \in 1..Len(e.order) |-> candidate(e.snap, e.order[k])]
            /\ e.next = Len(e.order)

\* Both operations were started in policy order and the one started second
\* has yielded its result first.
C27_Witness ==
    \E p \in Procs :
        /\ ex[p].pc = "run"
        /\ ex[p].mode = "Concurrent"
        /\ Len(ex[p].invoked) = 2
        /\ ex[p].invoked[1] # ex[p].invoked[2]
        /\ Len(ex[p].yielded) = 1
        /\ ex[p].yielded[1].val = ex[p].invoked[2]
        /\ ex[p].pending = {1}

\* C28: in Concurrent mode with first_success, a success is returned only
\* when it is the last result yielded and every result yielded before it was a
\* failure reported to note_failure; an error is returned only when every
\* candidate has yielded a failure.  So when every candidate but the slowest
\* fails, the slowest one's success is what is returned.
C28_ConcurrentSlowestSuccess ==
    \A p \in Procs :
        LET e == ex[p]
            n == Len(e.yielded)
        IN (FirstSuccessCall(e) /\ e.mode = "Concurrent") =>
            /\ e.ret.kind = "Ok" =>
                 /\ n > 0
                 /\ e.yielded[n] = Ok(e.ret.val)
                 /\ \A k \in 1..(n - 1) :
                      ~e.yielded[k].ok /\ e.noted[k] = <<FALSE, e.yielded[k].val>>
            /\ e.ret.kind = "Err" =>
                 /\ n = Len(e.order)
                 /\ \A k \in 1..n : ~e.yielded[k].ok
            /\ (n = Len(e.order) /\ n > 0 /\ e.yielded[n].ok) =>
                 e.ret = Ret("Ok", e.yielded[n].val)

\* The first candidate of the policy order was the slowest and the only one
\* to succeed: its success is returned after the other's failure.
C28_Witness ==
    \E p \in Procs :
        /\ ex[p].pc = "done"
        /\ ex[p].mode = "Concurrent"
        /\ ex[p].sink = "first_success"
        /\ Len(ex[p].order) = 2
        /\ ex[p].yielded = <<Err(ex[p].invoked[2]), Ok(ex[p].invoked[1])>>
        /\ ex[p].invoked[1] # ex[p].invoked[2]
        /\ ex[p].ret = Ret("Ok", ex[p].invoked[1])

\* C29: in Concurrent mode, once first_success has returned a success no
\* operation of the call is in flight any more, and the call does nothing
\* further: nothing more is yielded or reported, the policy's remembered
\* address stays as it is, and the only step left is the caller's return.
C29_ConcurrentAbandonsInFlight ==
    /\ [](\A p \in Procs :
            LET e == ex[p]
            IN (FirstSuccessCall(e) /\ e.mode = "Concurrent" /\ e.ret.kind = "Ok") =>
                /\ e.pc = "done"
                /\ e.pending = {}
                /\ Cardinality({k \in 1..Len(e.yielded) : e.yielded[k].ok}) = 1)
    /\ [][\A p \in Procs :
            (FirstSuccessCall(ex[p]) /\ ex[p].mode = "Concurrent"
             /\ ex[p].ret.kind = "Ok") =>
                /\ ex'[p] \in {ex[p], IdleEx}
                /\ last_working_target' = last_working_target]_vars

\* first_success has returned the success of one operation while the other
\* one started had not completed.
C29_Witness ==
    \E p \in Procs :
        /\ ex[p].pc = "done"
        /\ ex[p].mode = "Concurrent"
        /\ ex[p].sink = "first_success"
        /\ ex[p].ret.kind = "Ok"
        /\ Len(ex[p].invoked) = 2
        /\ Len(ex[p].yielded) = 1

\* The addresses of a snapshot's items, in the snapshot's order.
Addresses(snap) == [i \in 1..Len(snap.items) |-> candidate(snap, i - 1)]

\* C30: an error does not end the call: a result sequence consumed to its
\* end, in either mode, has yielded exactly one outcome per item of the
\* snapshot (each address as often as the snapshot has it), and first_success
\* returns an error only when every item was attempted and none succeeded.
C30_ErrorsDoNotAbort ==
    \A p \in Procs :
        LET e == ex[p]
            n == Len(e.yielded)
            vals == [k \in 1..n |-> e.yielded[k].val]
            ended == e.pc = "done" /\ e.ret.kind \in {"Stream", "Err", "NoTargets"}
        IN HasSnapshot(e) =>
            /\ ended =>
                 /\ n = Len(e.snap.items)
                 /\ \A i \in 1..n :
                      Count(vals, Addresses(e.snap)[i])
                         = Count(Addresses(e.snap), Addresses(e.snap)[i])
            /\ e.ret.kind = "Err" =>
                 /\ e.pc = "done"
                 /\ n > 0
                 /\ \A k \in 1..n : ~e.yielded[k].ok
                 /\ e.ret.val = e.yielded[n].val
            /\ (e.pc = "run" /\ e.sink = "stream") =>
                 n + Cardinality(e.pending) + (Len(e.order) - e.next) = Len(e.snap.items)

\* A Concurrent stream consumed to its end although its first result was an
\* error: the second result, a success, was yielded as well.
C30_Witness ==
    \E p \in Procs :
        /\ ex[p].pc = "done"
        /\ ex[p].mode = "Concurrent"
        /\ ex[p].sink = "stream"
        /\ Len(ex[p].yielded) = 2
        /\ ~ex[p].yielded[1].ok
        /\ ex[p].yielded[2].ok

\* C31: the ordered lookup returns the records of the unordered lookup, each
\* as often as it was answered and none other, in non-decreasing priority, with
\* the valid-until instant of the unordered lookup; an error of the unordered
\* lookup is returned as it is.
C31_OrderedLookupRearranges ==
    fout # <<>> =>
        LET out == fout[1]
        IN IF fin.unordered.ok
           THEN LET given == fin.unordered.val.records
                    got == out.val.records
                IN /\ out.ok
                   /\ out.val.valid_until = fin.unordered.val.valid_until
                   /\ Len(got) = Len(given)
                   /\ \A x \in RecordPool : Count(got, x) = Count(given, x)
                   /\ \A k \in 1..(Len(got) - 1) :
                        got[k].priority <= got[k + 1].priority
           ELSE out = fin.unordered

\* The lookup answered a record of priority 2 before two of priority 1, one of
\* them of weight 0, and the ordered lookup has moved it behind them.
C31_Witness ==
    /\ fout # <<>>
    /\ fin.unordered.ok
    /\ Len(fin.unordered.val.records) = MaxRecs
    /\ fin.unordered.val.records[1].priority = 2
    /\ fin.unordered.val.records[2].weight = 0
    /\ fout[1].val.records # fin.unordered.val.records
    /\ fout[1].val.records[Len(fout[1].val.records)].priority = 2

\* C32 as stated: every address the operation is invoked on is made of the
\* target and port of one record, the client's configured scheme and the
\* client's configured path prefix; under Rfc2782 the snapshot's item at the
\* index dispatched has that record's priority and weight.
C32_AddressOfOneRecord ==
    \A p \in Procs :
        LET e == ex[p]
        IN HasSnapshot(e) =>
            \A k \in 1..Len(e.invoked) :
                \E x \in RecordPool :
                    /\ e.invoked[k] = [scheme |-> http_scheme, host |-> x.target,
                                       port |-> x.port, path |-> path_prefix]
                    /\ policy = "Rfc2782" =>
                          /\ e.snap.items[e.order[k] + 1].priority = x.priority
                          /\ e.snap.items[e.order[k] + 1].weight = x.weight

\* C33: refreshes are not coordinated and the last writer wins: a caller is
\* in a lookup of its own exactly when the cache it read was invalid; when its
\* lookup is answered it puts the cache built from that answer into the slot
\* whatever the slot holds by then, a valid cache that expires later included;
\* and the slot changes in no other way, so it holds what was stored last.
C33_LastWriterWins ==
    /\ [](\A p \in Callers :
            /\ ex[p].pc = "lookup" =>
                 (~valid(ex[p].loaded, ex[p].loaded_at) /\ ex[p].lookups = 1)
            /\ ex[p].hit => (valid(ex[p].loaded, ex[p].loaded_at) /\ ex[p].lookups = 0))
    /\ [][(\A p \in Callers :
               (ex[p].pc = "lookup" /\ ex'[p].pc = "run") =>
                   /\ cache' = ex'[p].snap
                   /\ ex'[p].stores = 1
                   /\ BuiltByOneRefresh(cache', ex'[p].answer, ex[p].loaded_at, now))
           /\ (cache' # cache =>
                 \E p \in Callers : ex[p].pc = "lookup" /\ ex'[p].pc = "run")]_vars

\* The caller whose lookup began first has stored last: the slot holds its
\* snapshot, which expires before the still valid snapshot of the other
\* caller, whose lookup began later and had the same smallest ttl.
C33_Witness ==
    \E p, q \in Callers :
        /\ ex[p].pc = "run" /\ ex[p].stores = 1
        /\ ex[q].pc = "run" /\ ex[q].stores = 1
        /\ ex[p].loaded_at < ex[q].loaded_at
        /\ ex[p].answer.ttl = ex[q].answer.ttl
        /\ ex[p].snap.valid_until < ex[q].snap.valid_until
        /\ valid(ex[q].snap, now)
        /\ valid(ex[p].snap, now)
        /\ cache = ex[p].snap

\* C34: the order of an execution is the one the policy gives, for what it
\* remembers then, in the step in which execute acquires its snapshot; from
\* then on, whatever is reported by this or by the other execution, the order
\* stays as it is and every invocation is on the candidate at its position in
\* that order.
C34_OrderFixedAtAcquisition ==
    [][\A p \in Callers :
          /\ AcquiresSnapshot(p) =>
                ex'[p].order \in order(policy, ex'[p].snap.items, last_working_target)
          /\ (HasSnapshot(ex[p]) /\ ex'[p].pc # "idle") =>
                /\ ex'[p].order = ex[p].order
                /\ Len(ex'[p].invoked) <= Len(ex[p].order)
                /\ \A k \in 1..Len(ex'[p].invoked) :
                      ex'[p].invoked[k] = candidate(ex[p].snap, ex[p].order[k])
    ]_vars

\* A Serial execution under Affinity is on its first candidate and has
\* reported nothing, while the other caller's success has made its second
\* candidate the remembered address: a new execute would begin with it.
C34_Witness ==
    \E p \in Callers :
        /\ policy = "Affinity"
        /\ ex[p].pc = "run"
        /\ ex[p].mode = "Serial"
        /\ ex[p].noted = <<>>
        /\ Len(ex[p].order) = 2
        /\ Len(ex[p].invoked) = 1
        /\ last_working_target = Some(candidate(ex[p].snap, ex[p].order[2]))
        /\ candidate(ex[p].snap, ex[p].order[1]) # candidate(ex[p].snap, ex[p].order[2])

\* The addresses a refresh of the client can build.
WholeAddresses ==
    {parse(x, http_scheme, path_prefix).val :
        x \in {y \in RecordPool : parse(y, http_scheme, path_prefix).ok}}

\* C35: under Affinity and every interleaving of two callers, the remembered
\* address is absent or a whole address; every step that reports a success sets
\* it to the address of that success, an address the operation was invoked on;
\* no other step changes it; and once present it is never absent again.
C35_RemembersLatestSuccess ==
    /\ [](policy = "Affinity" =>
            \/ last_working_target = None
            \/ last_working_target.some /\ last_working_target.v \in WholeAddresses)
    /\ [][policy = "Affinity" =>
            /\ \A p \in Callers :
                  ReportsSuccess(p) =>
                     LET uri == ex'[p].noted[Len(ex'[p].noted)][2]
                     IN /\ last_working_target' = Some(uri)
                        /\ \E k \in 1..Len(ex[p].invoked) : ex[p].invoked[k] = uri
            /\ (\A p \in Callers : ~ReportsSuccess(p)) =>
                  last_working_target' = last_working_target
            /\ last_working_target.some => last_working_target'.some
       ]_vars

\* Both callers have reported a success, on different addresses; the one
\* reported by the second caller is what is remembered, and the first caller
\* has since reported a failure.
C35_Witness ==
    /\ policy = "Affinity"
    /\ LastSuccess(ex[1]) > 0
    /\ LastSuccess(ex[2]) > 0
    /\ ex[1].noted[LastSuccess(ex[1])][2] # ex[2].noted[LastSuccess(ex[2])][2]
    /\ last_working_target = Some(ex[2].noted[LastSuccess(ex[2])][2])
    /\ LastSuccess(ex[1]) < Len(ex[1].noted)

\* The quotient digits and the remainder of the u32 x = <<high, low>> divided
\* by d > 0, by long division over the four bytes of x.
U32DivMod(x, d) ==
    LET b3 == x[1] \div 256
        b2 == x[1] % 256
        b1 == x[2] \div 256
        b0 == x[2] % 256
        r3 == b3 % d
        r2 == (r3 * 256 + b2) % d
        r1 == (r2 * 256 + b1) % d
    IN [q |-> <<b3 \div d, (r3 * 256 + b2) \div d, (r2 * 256 + b1) \div d,
                (r1 * 256 + b0) \div d>>,
        rem |-> (r1 * 256 + b0) % d]

\* The u32 x is exactly the product w * r of two u16.
IsProduct(x, w, r) ==
    IF w = 0
    THEN x = <<0, 0>>
    ELSE LET dm == U32DivMod(x, w)
         IN dm.rem = 0 /\ dm.q = <<0, 0, r \div 256, r % 256>>

\* The position of index idx in an order.
PositionIn(ord, idx) == CHOOSE k \in 1..Len(ord) : ord[k] = idx

\* C36: for weights and draws over the whole u16 range the multiplication of
\* sort_key loses no bits, the key's second component is exactly weight x
\* draw (0 for a weight of 0), the order is by non-decreasing priority, and
\* an item of weight 0 never comes before an item of the same priority whose
\* product is positive.
C36_SortKeyNeverOverflows ==
    fout # <<>> =>
        LET o == fout[1]
            item(i) == fin.cached[i]
        IN /\ \A i \in 1..MaxRecs :
                /\ ~o.overflow[i]
                /\ o.keys[i][1] = item(i).priority
                /\ IsProduct(o.keys[i][2], item(i).weight, fin.rnd[i])
           /\ \A k \in 1..(MaxRecs - 1) :
                item(o.order[k] + 1).priority <= item(o.order[k + 1] + 1).priority
           /\ \A i, j \in 1..MaxRecs :
                (/\ item(i).weight = 0
                 /\ item(j).priority = item(i).priority
                 /\ item(j).weight > 0 /\ fin.rnd[j] > 0)
                => PositionIn(o.order, j - 1) < PositionIn(o.order, i - 1)

\* The largest weight with the largest draw, 65535 x 65535 = 65534 x 65536 + 1,
\* after an item of weight 0 of the same priority: the order puts it first.
C36_Witness ==
    /\ fout # <<>>
    /\ fin.cached[1].weight = 0
    /\ fin.cached[2].weight = U16_MAX
    /\ fin.cached[2].priority = fin.cached[1].priority
    /\ fin.rnd[2] = U16_MAX
    /\ fout[1].keys[2][2] = <<U16_MAX - 1, 1>>
    /\ fout[1].order[1] = 1

\* The resolver error that a value of res_h_errno other than 0 names.
ErrorNamed(h) ==
    IF h \in 1..4
    THEN ResolverError(<<"HostNotFound", "TryAgain", "NoRecovery", "NoData">>[h], 0)
    ELSE ResolverError("Unexpected", h)

\* The last call of res_nsearch failed: check reported its return value.
SearchFailed == fout.queries > 0 /\ fout.len < 0 /\ fout.res_h_errno # 0

\* C37: the number of queries of a lookup is bounded by the room between the
\* initial buffer and 65535; whenever a query is repeated the buffer has
\* become the length of the last answer, which is above the initial size and
\* at most 65535; after an answer longer than 65535 the lookup has ended with
\* AnswerTooLarge; after a failed query it has ended with the resolver error
\* that res_h_errno names.
C37_BufferLoopEnds ==
    /\ fout.queries <= 1 + (IF fin.initial_buf_size <= NS_MAXMSG
                             THEN NS_MAXMSG - fin.initial_buf_size ELSE 0)
    /\ (fout.pc = "query" /\ fout.queries > 0) =>
            /\ fout.buf_len = fout.len
            /\ fout.buf_len > fin.initial_buf_size
            /\ fout.buf_len <= NS_MAXMSG
    /\ (fout.queries > 0 /\ fout.len > NS_MAXMSG) =>
            fout.result = LibErr(AnswerTooLarge)
    /\ SearchFailed => fout.result = LibErr(Resolver(ErrorNamed(fout.res_h_errno)))

\* C37, what holds of the loop: a query is repeated only after an answer
\* that check let through, longer than the buffer and at most 65535, and the
\* buffer then is that length; the lookup ends with AnswerTooLarge exactly
\* after an answer that check let through and that is longer than both the
\* buffer and 65535 (a negative length, taken as a usize, is); and every
\* lookup ends.
C37_LoopProgress ==
    /\ [][fout.pc = "query" =>
            LET len == fout'.len
                passed == len >= 0 \/ fout'.res_h_errno = 0
                fits == len >= 0 /\ len <= fout.buf_len
                allowed == len >= 0 /\ len <= NS_MAXMSG
            IN /\ fout'.queries = fout.queries + 1
               /\ fout'.pc = "query" <=> (passed /\ ~fits /\ allowed)
               /\ fout'.pc = "query" => (fout'.buf_len = len /\ fout'.buf_len > fout.buf_len)
               /\ fout'.pc # "query" => fout'.buf_len = fout.buf_len
               /\ fout'.pc = "initparse" <=> (passed /\ fits)
               /\ fout'.result = LibErr(AnswerTooLarge) <=> (passed /\ ~fits /\ ~allowed)
               /\ ~passed => fout'.result = LibErr(Resolver(ErrorNamed(fout'.res_h_errno)))]_vars
    /\ <>(fout.pc = "done")

\* The fields of the answer's record rr in the record returned for it.
ReturnedFor(rr) == LibResolvSrvRecord(rr.target, rr)

====
